---- MODULE Spec2Model ----
(***************************************************************************)
(* PyPowerAutomate: the action dependency graph engine                     *)
(* (pypowerautomate/actions/base.py, pypowerautomate/actions/actions.py).  *)
(*                                                                         *)
(* Python objects live in a heap: heap[i] is the BaseAction object with    *)
(* identity i, graphs[g] is the Actions object with identity g, and        *)
(* cells[c] is the mutable payload object (the inputs of an action) with   *)
(* identity c.  "in self.nodes.values()" and set membership compare        *)
(* BaseAction objects by identity, i.e. by heap index.  Objects that no    *)
(* live object refers to any more (the copies a failed call leaves behind, *)
(* the sentinel Actions.__init__ builds before __deepcopy__ replaces it)   *)
(* are not kept in the heap.  Two fields are history, not program state:   *)
(* copy_of of a node (the object it was cloned from) and origin of a graph *)
(* (the call that returned it).                                            *)
(*                                                                         *)
(* The expression compiler (pypowerautomate/actions/condition.py) is a     *)
(* pipeline of pure functions over text.  A Python str is the sequence of  *)
(* its characters, a token is a str, and a call returns its value or       *)
(* raises an exception.                                                    *)
(*                                                                         *)
(* RawActions (pypowerautomate/actions/actions.py) validates a definition, *)
(* a Python dict, which is the sequence of its entries in insertion order. *)
(***************************************************************************)
EXTENDS Integers, Sequences, FiniteSets, TLC

VARIABLES heap, cells, graphs, built, last_ok, expression, condition, exported,
          definition, raw

\* the objects of the graph engine
gvars == <<heap, cells, graphs, built, last_ok>>

\* the text the caller writes, the Condition built from it, what export() returned
cvars == <<expression, condition, exported>>

\* the definition a caller hands to RawActions, what validation() and export() returned
rvars == <<definition, raw>>

vars == <<heap, cells, graphs, built, last_ok, expression, condition, exported,
          definition, raw>>

(* ------------------------------ bounds -------------------------------- *)
MaxObj == 8         \* BaseAction objects alive at once
MaxBase == 2        \* Actions objects the caller constructs with Actions()
MaxDerived == 1     \* Actions objects the caller obtains from clone() and +
MaxBuilt == 2       \* action nodes the caller constructs
MaxInitVariable == 1 \* InitVariableAction nodes the caller constructs
MaxEdits == 1       \* payload edits made by the caller
MaxPieces == 4      \* characters and keywords the caller types into an expression
MaxWords == 5       \* words the caller joins with spaces into an expression
MaxEntries == 2     \* entries of the definition the caller hands to RawActions

(* ------------------------------ inputs -------------------------------- *)
Names == {"a", "root"}    \* names the caller chooses, the sentinel's among them
Classes == {"Action", "InitVariableAction"}
None == 0                                 \* Python's None

(* --------------------------- base.py: State --------------------------- *)
Succeeded == "Succeeded"
Failed == "Failed"
Skipped == "Skipped"
TimedOut == "TimedOut"

(* ------------------------------ helpers ------------------------------- *)
Range(f) == {f[k] : k \in DOMAIN f}

EmptyDict == [k \in {} |-> {}]

\* d[k] = v on a Python dict
DictPut(d, k, v) == [j \in DOMAIN d \cup {k} |-> IF j = k THEN v ELSE d[j]]

\* every order a Python set can be iterated in
Orders(S) ==
    {s \in [1..Cardinality(S) -> S] : \A i, j \in 1..Cardinality(S) : i # j => s[i] # s[j]}

\* the world an operation reads and writes
World == [heap |-> heap, cells |-> cells, graphs |-> graphs]

\* the outcome of a call: returned normally, or a ValueError left the world as w
Return(w) == [ok |-> TRUE, w |-> w]
Raise(w) == [ok |-> FALSE, w |-> w]

\* uuid.uuid4(): an identifier no object carries yet
uuid4(w) == Len(w.heap) + 1

(* ---------------------- base.py: BaseAction --------------------------- *)
\* BaseAction.__init__ (and the subclass constructor, which sets the payload)
NewObject(w, name, cls, payload) ==
    LET c == Len(w.cells) + 1
        n == [action_name |-> name,
              cls |-> cls,
              runafter |-> EmptyDict,
              metadata |-> uuid4(w),
              next_nodes |-> {},
              have_parent_node |-> FALSE,
              inputs |-> c,
              copy_of |-> None]
    IN  [w EXCEPT !.heap = Append(@, n), !.cells = Append(@, payload)]

\* isinstance(node, SkeltonNode)
IsSkelton(w, n) == w.heap[n].cls = "SkeltonNode"

\* isinstance(node, InitVariableAction)
IsInitVariable(w, n) == w.heap[n].cls = "InitVariableAction"

\* BaseAction.add_next_action
add_next_action(w, self, node) ==
    [w EXCEPT !.heap[self].next_nodes = @ \cup {node}]

\* state_list with force_exec not covering Skipped and TimedOut
state_list_short(force_exec, exec_if_failed) ==
    IF force_exec THEN {Succeeded, Failed}
    ELSE IF exec_if_failed THEN {Failed}
    ELSE {Succeeded}

\* the state_list of BaseAction.update_runafter (a list; its order is not observed)
state_list(force_exec, exec_if_failed) ==
    IF force_exec THEN {Succeeded, Failed, Skipped, TimedOut}
    ELSE IF exec_if_failed THEN {Failed}
    ELSE {Succeeded}

\* update_runafter without the SkeltonNode test of line 105
update_runafter_below_sentinel(w, self, parent_node, force_exec, exec_if_failed) ==
    [w EXCEPT !.heap[self].runafter =
        DictPut(@, w.heap[parent_node].action_name,
                state_list(force_exec, exec_if_failed))]

\* BaseAction.update_runafter
update_runafter(w, self, parent_node, force_exec, exec_if_failed) ==
    IF IsSkelton(w, parent_node)
    THEN [w EXCEPT !.heap[self].runafter = EmptyDict]
    ELSE [w EXCEPT !.heap[self].runafter =
             DictPut(@, w.heap[parent_node].action_name,
                     state_list(force_exec, exec_if_failed))]

(* ----------------------- actions.py: Actions -------------------------- *)
\* Actions.__init__
NewActions(w, is_root) ==
    LET w1 == NewObject(w, "root", "SkeltonNode", 0)
        r == Len(w1.heap)
        g == [root_node |-> r,
              last_update_node |-> r,
              is_root_actions |-> is_root,
              nodes |-> [k \in {"root"} |-> r],
              origin |-> [op |-> "new", lhs |-> None, rhs |-> None]]
    IN  [w1 EXCEPT !.graphs = Append(@, g)]

\* RenameLoop with the suffix appended to the name of the previous round
RECURSIVE RenameLoopChained(_, _, _, _)
RenameLoopChained(nodes, original_name, action_name, counter) ==
    IF action_name \in DOMAIN nodes
    THEN RenameLoopChained(nodes, original_name,
                           action_name \o "_" \o ToString(counter), counter + 1)
    ELSE action_name

\* the renaming loop of Actions.__validate_action: the name the action ends up with
RECURSIVE RenameLoop(_, _, _, _)
RenameLoop(nodes, original_name, action_name, counter) ==
    IF action_name \in DOMAIN nodes
    THEN RenameLoop(nodes, original_name,
                    original_name \o "_" \o ToString(counter), counter + 1)
    ELSE action_name

\* validate_action without the have_parent_node check
validate_action_any_parent(w, g, new_action, prev_action) ==
    LET self == w.graphs[g]
    IN  IF new_action \in Range(self.nodes) THEN Raise(w)
        ELSE IF prev_action # None /\ prev_action \notin Range(self.nodes) THEN Raise(w)
        ELSE IF ~self.is_root_actions /\ IsInitVariable(w, new_action) THEN Raise(w)
        ELSE LET original_name == w.heap[new_action].action_name
             IN  Return([w EXCEPT !.heap[new_action].action_name =
                            RenameLoop(self.nodes, original_name, original_name, 1)])

\* validate_action with the renaming done before the InitVariableAction check
validate_action_rename_first(w, g, new_action, prev_action) ==
    LET self == w.graphs[g]
        original_name == w.heap[new_action].action_name
        renamed == [w EXCEPT !.heap[new_action].action_name =
                       RenameLoop(self.nodes, original_name, original_name, 1)]
    IN  IF new_action \in Range(self.nodes) THEN Raise(w)
        ELSE IF w.heap[new_action].have_parent_node THEN Raise(w)
        ELSE IF prev_action # None /\ prev_action \notin Range(self.nodes) THEN Raise(w)
        ELSE IF ~self.is_root_actions /\ IsInitVariable(w, new_action) THEN Raise(renamed)
        ELSE Return(renamed)

\* Actions.__validate_action; prev_action is None when the caller passes none
validate_action(w, g, new_action, prev_action) ==
    LET self == w.graphs[g]
    IN  IF new_action \in Range(self.nodes) THEN Raise(w)
        ELSE IF w.heap[new_action].have_parent_node THEN Raise(w)
        ELSE IF prev_action # None /\ prev_action \notin Range(self.nodes) THEN Raise(w)
        ELSE IF ~self.is_root_actions /\ IsInitVariable(w, new_action) THEN Raise(w)
        ELSE LET original_name == w.heap[new_action].action_name
             IN  Return([w EXCEPT !.heap[new_action].action_name =
                            RenameLoop(self.nodes, original_name, original_name, 1)])

\* Attach without add_next_action: the parent's child set is left as it was
Attach_unlinked(w, g, new_action, parent, force_exec, exec_if_failed) ==
    LET w2 == [w EXCEPT !.heap[new_action].have_parent_node = TRUE]
        w3 == update_runafter(w2, new_action, parent, force_exec, exec_if_failed)
    IN  [w3 EXCEPT !.graphs[g].last_update_node = new_action,
                   !.graphs[g].nodes = DictPut(@, w3.heap[new_action].action_name, new_action)]

\* lines 62-66, 79-83 and 95-99: link new_action below parent and register it
Attach(w, g, new_action, parent, force_exec, exec_if_failed) ==
    LET w1 == add_next_action(w, parent, new_action)
        w2 == [w1 EXCEPT !.heap[new_action].have_parent_node = TRUE]
        w3 == update_runafter(w2, new_action, parent, force_exec, exec_if_failed)
    IN  [w3 EXCEPT !.graphs[g].last_update_node = new_action,
                   !.graphs[g].nodes = DictPut(@, w3.heap[new_action].action_name, new_action)]

\* add_top without line 65
add_top_keep_last(w, g, new_action) ==
    LET v == validate_action(w, g, new_action, None)
    IN  IF ~v.ok THEN v
        ELSE Return([Attach(v.w, g, new_action, v.w.graphs[g].root_node, FALSE, FALSE)
                        EXCEPT !.graphs[g].last_update_node =
                                   w.graphs[g].last_update_node])

\* Actions.add_top
add_top(w, g, new_action) ==
    LET v == validate_action(w, g, new_action, None)
    IN  IF ~v.ok THEN v
        ELSE Return(Attach(v.w, g, new_action, v.w.graphs[g].root_node, FALSE, FALSE))

\* Actions.add_after
add_after(w, g, new_action, prev_action, force_exec, exec_if_failed) ==
    LET v == validate_action(w, g, new_action, prev_action)
    IN  IF ~v.ok THEN v
        ELSE Return(Attach(v.w, g, new_action, prev_action, force_exec, exec_if_failed))

\* append linking below the sentinel instead of last_update_node
append_below_root(w, g, new_action, force_exec, exec_if_failed) ==
    LET v == validate_action(w, g, new_action, None)
    IN  IF ~v.ok THEN v
        ELSE Return(Attach(v.w, g, new_action, v.w.graphs[g].root_node,
                           force_exec, exec_if_failed))

\* Actions.append
append(w, g, new_action, force_exec, exec_if_failed) ==
    LET v == validate_action(w, g, new_action, None)
    IN  IF ~v.ok THEN v
        ELSE Return(Attach(v.w, g, new_action, v.w.graphs[g].last_update_node,
                           force_exec, exec_if_failed))

\* clone_node without line 68: the copy keeps the dependency map of the original
clone_node_keep_runafter(w, self) ==
    LET o == w.heap[self]
        n == [o EXCEPT !.metadata = uuid4(w),
                       !.next_nodes = {},
                       !.have_parent_node = FALSE,
                       !.inputs = Len(w.cells) + 1,
                       !.copy_of = self]
    IN  [w EXCEPT !.heap = Append(@, n), !.cells = Append(@, w.cells[o.inputs])]

\* clone_node with the payload copied by reference instead of deepcopy
clone_node_shallow(w, self) ==
    LET o == w.heap[self]
        n == [o EXCEPT !.metadata = uuid4(w),
                       !.runafter = EmptyDict,
                       !.next_nodes = {},
                       !.have_parent_node = FALSE,
                       !.copy_of = self]
    IN  [w EXCEPT !.heap = Append(@, n)]

\* BaseAction.__deepcopy__ / BaseAction.clone: the copy is the last object of the heap
clone_node(w, self) ==
    LET o == w.heap[self]
        n == [o EXCEPT !.metadata = uuid4(w),
                       !.runafter = EmptyDict,
                       !.next_nodes = {},
                       !.have_parent_node = FALSE,
                       !.inputs = Len(w.cells) + 1,
                       !.copy_of = self]
    IN  [w EXCEPT !.heap = Append(@, n), !.cells = Append(@, w.cells[o.inputs])]

\* Actions.copy_nodes: [w, node], node the root of the copied subtree.  The order
\* in which next_nodes is iterated only decides which identity each copy gets.
RECURSIVE copy_nodes(_, _)
RECURSIVE CopyChildren(_, _, _)
copy_nodes(w, original_node) ==
    LET w1 == clone_node(w, original_node)
    IN  CopyChildren(w1, Len(w1.heap), w.heap[original_node].next_nodes)

\* the for loop of Actions.copy_nodes (lines 112-114)
CopyChildren(w, new_node, todo) ==
    IF todo = {} THEN [w |-> w, node |-> new_node]
    ELSE LET child == CHOOSE c \in todo : \A d \in todo : c <= d
             r == copy_nodes(w, child)
         IN  CopyChildren(add_next_action(r.w, new_node, r.node), new_node, todo \ {child})

\* stack.append((next_node, parent)) for next_node in order
Push(stack, order, parent) ==
    stack \o [i \in 1..Len(order) |-> <<order[i], parent>>]

\* the while loop of Actions.__deepcopy__ (lines 129-134): every outcome, one per
\* iteration order of the child sets
RECURSIVE RelinkLoop(_, _, _)
RelinkLoop(w, g, stack) ==
    IF stack = <<>> THEN {Return(w)}
    ELSE LET child == stack[Len(stack)][1]
             parent == stack[Len(stack)][2]
             rest == SubSeq(stack, 1, Len(stack) - 1)
             r == IF parent # None
                  THEN add_after(w, g, child, parent, FALSE, FALSE)
                  ELSE Return(w)
         IN  IF ~r.ok THEN {r}
             ELSE UNION {RelinkLoop(r.w, g, Push(rest, o, child)) :
                            o \in Orders(r.w.heap[child].next_nodes)}

\* Relast pointing at the last node of the original
Relast_original(w, self, g) ==
    Return([w EXCEPT !.graphs[g].last_update_node = w.graphs[self].last_update_node])

\* line 135: new_actions.last_update_node = new_actions.nodes[self.last_update_node.action_name]
Relast(w, self, g) ==
    LET name == w.heap[w.graphs[self].last_update_node].action_name
    IN  IF name \in DOMAIN w.graphs[g].nodes
        THEN Return([w EXCEPT !.graphs[g].last_update_node = w.graphs[g].nodes[name]])
        ELSE Raise(w)

\* Actions.__deepcopy__ / Actions.clone: every outcome; the copy is the last graph
deepcopy(w, self) ==
    LET c == copy_nodes(w, w.graphs[self].root_node)
        new_actions == [root_node |-> c.node,
                        last_update_node |-> None,
                        is_root_actions |-> w.graphs[self].is_root_actions,
                        nodes |-> [k \in {"root"} |-> c.node],
                        origin |-> [op |-> "clone", lhs |-> self, rhs |-> None]]
        w1 == [c.w EXCEPT !.graphs = Append(@, new_actions)]
        g == Len(w1.graphs)
    IN  {IF r.ok
         THEN LET l == Relast(r.w, self, g) IN IF l.ok THEN l ELSE Raise(w)
         ELSE Raise(w) :
            r \in RelinkLoop(w1, g, << <<c.node, None>> >>)}

\* Below with the sentinel's children pushed with the sentinel of the copy
Below_root(w, g, skelton, new_child) ==
    IF skelton THEN w.graphs[g].root_node ELSE new_child

\* lines 167-171: the node the children of child are pushed with
Below(w, g, skelton, new_child) ==
    IF skelton THEN w.graphs[g].last_update_node ELSE new_child

\* the while loop of Actions.__add__ (lines 164-173): every outcome.  The clone
\* of the right operand's sentinel is referred to by nothing and is dropped.
RECURSIVE SpliceLoop(_, _, _)
SpliceLoop(w, g, stack) ==
    IF stack = <<>> THEN {Return(w)}
    ELSE LET child == stack[Len(stack)][1]
             parent == stack[Len(stack)][2]
             rest == SubSeq(stack, 1, Len(stack) - 1)
             skelton == IsSkelton(w, child)
             w1 == IF skelton THEN w ELSE clone_node(w, child)
             new_child == Len(w1.heap)
             below == Below(w1, g, skelton, new_child)
             r == IF skelton THEN Return(w1)
                  ELSE add_after(w1, g, new_child, parent, FALSE, FALSE)
         IN  IF ~r.ok THEN {r}
             ELSE UNION {SpliceLoop(r.w, g, Push(rest, o, below)) :
                            o \in Orders(w.heap[child].next_nodes)}

\* add_actions with line 162 moved behind the while loop
add_actions_flag_last(w, self, rhs_actions) ==
    UNION {IF ~c.ok THEN {c}
           ELSE LET g == Len(c.w.graphs)
                    w1 == [c.w EXCEPT
                              !.graphs[g].origin =
                                  [op |-> "add", lhs |-> self, rhs |-> rhs_actions]]
                IN  {IF r.ok
                     THEN Return([r.w EXCEPT
                                     !.graphs[g].is_root_actions =
                                         @ \/ w.graphs[rhs_actions].is_root_actions])
                     ELSE Raise(w) :
                        r \in SpliceLoop(w1, g,
                                         << <<w.graphs[rhs_actions].root_node, None>> >>)} :
           c \in deepcopy(w, self)}

\* Actions.__add__ with an Actions on the right: every outcome
add_actions(w, self, rhs_actions) ==
    UNION {IF ~c.ok THEN {c}
           ELSE LET g == Len(c.w.graphs)
                    w1 == [c.w EXCEPT
                              !.graphs[g].is_root_actions =
                                  @ \/ w.graphs[rhs_actions].is_root_actions,
                              !.graphs[g].origin =
                                  [op |-> "add", lhs |-> self, rhs |-> rhs_actions]]
                IN  {IF r.ok THEN r ELSE Raise(w) :
                        r \in SpliceLoop(w1, g,
                                         << <<w.graphs[rhs_actions].root_node, None>> >>)} :
           c \in deepcopy(w, self)}

\* add_action appending rhs_action itself, not its clone
add_action_no_clone(w, self, rhs_action) ==
    {IF ~c.ok THEN c
     ELSE LET g == Len(c.w.graphs)
              w1 == [c.w EXCEPT !.graphs[g].origin =
                        [op |-> "add_node", lhs |-> self, rhs |-> rhs_action]]
              r == append(w1, g, rhs_action, FALSE, FALSE)
          IN  IF r.ok THEN r ELSE Raise(w) :
     c \in deepcopy(w, self)}

\* Actions.__add__ with a BaseAction on the right: every outcome
add_action(w, self, rhs_action) ==
    {IF ~c.ok THEN c
     ELSE LET g == Len(c.w.graphs)
              w1 == clone_node([c.w EXCEPT !.graphs[g].origin =
                                   [op |-> "add_node", lhs |-> self, rhs |-> rhs_action]],
                               rhs_action)
              r == append(w1, g, Len(w1.heap), FALSE, FALSE)
          IN  IF r.ok THEN r ELSE Raise(w) :
     c \in deepcopy(w, self)}

\* BaseAction.__add__ with an Actions on the right (base.py lines 130-141): every
\* outcome.  The while loop of lines 133-140 is the loop of Actions.__add__.
node_add_actions(w, self, rhs_actions) ==
    LET w0 == NewActions(w, w.graphs[rhs_actions].is_root_actions)
        g == Len(w0.graphs)
        w1 == [w0 EXCEPT !.graphs[g].origin =
                  [op |-> "node_add", lhs |-> self, rhs |-> rhs_actions]]
        first == append(w1, g, self, FALSE, FALSE)
    IN  IF ~first.ok THEN {Raise(w)}
        ELSE SpliceLoop(first.w, g, << <<w.graphs[rhs_actions].root_node, None>> >>)

\* BaseAction.__add__ with a BaseAction on the right (base.py lines 142-146)
node_add_node(w, self, rhs_action) ==
    LET w0 == NewActions(w, FALSE)
        g == Len(w0.graphs)
        w1 == clone_node([w0 EXCEPT !.graphs[g].origin =
                             [op |-> "node_add_node", lhs |-> self, rhs |-> rhs_action]],
                         self)
        first == append(w1, g, Len(w1.heap), FALSE, FALSE)
        w2 == clone_node(first.w, rhs_action)
        second == append(w2, g, Len(w2.heap), FALSE, FALSE)
    IN  IF ~first.ok THEN Raise(w)
        ELSE IF ~second.ok THEN Raise(w)
        ELSE second

\* what node.export() returns in the subclasses (e.g. variable.py lines 46-57)
export_node(w, node) ==
    [metadata |-> w.heap[node].metadata,
     type |-> w.heap[node].cls,
     runAfter |-> w.heap[node].runafter,
     inputs |-> w.cells[w.heap[node].inputs]]

\* export without the isinstance(node, SkeltonNode) test of lines 190-191; the
\* sentinel's export() returns None
export_all(w, g) ==
    LET listed == Range(w.graphs[g].nodes)
    IN  [k \in {w.heap[n].action_name : n \in listed} |->
            LET n == CHOOSE x \in listed : w.heap[x].action_name = k
            IN  IF IsSkelton(w, n) THEN None ELSE export_node(w, n)]

\* Actions.export: one entry per name of a registered node that is no sentinel
\* (were two registered nodes to carry one name, the later in the registry wins)
export(w, g) ==
    LET listed == {n \in Range(w.graphs[g].nodes) : ~IsSkelton(w, n)}
    IN  [k \in {w.heap[n].action_name : n \in listed} |->
            export_node(w, CHOOSE n \in listed : w.heap[n].action_name = k)]

\* the caller edits the payload of a node in place, e.g. node.inputs[key] = value
set_payload(w, node, value) ==
    [w EXCEPT !.cells[w.heap[node].inputs] = value]

(* ---------------------- actions.py: RawActions ------------------------ *)
\* The definition is a Python dict: its entries in insertion order, each a name
\* and a value.  A value is a dict with a set of keys, whose runAfter (when it
\* has the key) is a dict keyed by names, or is no dict at all.
Entry(name, node) == [name |-> name, node |-> node]
NoDict == [dict |-> FALSE, keys |-> {}, runAfter |-> {}]
Dict(keys, runAfter) == [dict |-> TRUE, keys |-> keys, runAfter |-> runAfter]

\* the for loop of RawActions.validation (lines 215-224) from entry i on
RECURSIVE validation_loop(_, _, _)
validation_loop(d, i, used_names) ==
    IF i > Len(d) THEN TRUE
    ELSE LET action_name == d[i].name
             node == d[i].node
             used == used_names \cup {action_name}
         IN  IF action_name \in used_names THEN FALSE
             ELSE IF ~node.dict \/ {"type", "inputs", "metadata"} \ node.keys # {}
             THEN FALSE
             ELSE IF "runAfter" \in node.keys /\ \E name \in node.runAfter : name \notin used
             THEN FALSE
             ELSE validation_loop(d, i + 1, used)

\* RawActions.validation
validation(d) ==
    IF d = <<>> THEN FALSE
    ELSE validation_loop(d, 1, {})

\* RawActions.export; <<>> is the empty dict
export_raw(d) ==
    IF validation(d) THEN d ELSE <<>>

(* ------------------------- condition.py: text ------------------------- *)
QUOTE == "\""
Digits == {"0", "1", "2", "3", "4", "5", "6", "7", "8", "9"}
Letters == {"a", "b", "c", "d", "e", "f", "g", "h", "i", "j", "k", "l", "m",
            "n", "o", "p", "q", "r", "s", "t", "u", "v", "w", "x", "y", "z"}

\* str.isalpha and str.isalnum of one character
isalpha(char) == char \in Letters
isalnum(char) == char \in Letters \cup Digits

\* what a call returns, and the exception a call raises
Value(v) == [ok |-> TRUE, value |-> v]
ValueError(message) == [ok |-> FALSE, error |-> "ValueError", message |-> message]
IndexError(message) == [ok |-> FALSE, error |-> "IndexError", message |-> message]

\* the tokens the code names
EQ == <<"=", "=">>
NE == <<"!", "=">>
GT == <<">">>
LT == <<"<">>
GE == <<">", "=">>
LE == <<"<", "=">>
NOT == <<"n", "o", "t">>
AND == <<"a", "n", "d">>
OR == <<"o", "r">>
TRUE_ == <<"t", "r", "u", "e">>
FALSE_ == <<"f", "a", "l", "s", "e">>
LPAREN == <<"(">>
RPAREN == <<")">>

\* precedence with "or" binding tighter than "and"
precedence_or_first ==
    [t \in {EQ, NE, GT, LT, GE, LE, NOT, AND, OR} |->
        IF t = NOT THEN 3 ELSE IF t = AND THEN 1 ELSE IF t = OR THEN 2 ELSE 4]

\* precedence with "not" binding tighter than the comparisons
precedence_not_first ==
    [t \in {EQ, NE, GT, LT, GE, LE, NOT, AND, OR} |->
        IF t = NOT THEN 5 ELSE IF t = AND THEN 2 ELSE IF t = OR THEN 1 ELSE 4]

\* precedence (lines 5-15)
precedence ==
    [t \in {EQ, NE, GT, LT, GE, LE, NOT, AND, OR} |->
        IF t = NOT THEN 3 ELSE IF t = AND THEN 2 ELSE IF t = OR THEN 1 ELSE 4]

\* operator_mapping (lines 18-28)
operator_mapping ==
    [t \in {EQ, NE, GT, LT, GE, LE, NOT, AND, OR} |->
        CASE t = EQ -> "equals"
          [] t = GE -> "greaterOrEquals"
          [] t = LE -> "lessOrEquals"
          [] t = GT -> "greater"
          [] t = LT -> "less"
          [] t = AND -> "and"
          [] t = OR -> "or"
          [] t = NOT -> "not"
          [] t = NE -> "not_equals"]

\* s.find(char, start): the first index >= start that holds char, or -1
RECURSIVE find(_, _, _)
find(s, char, start) ==
    IF start > Len(s) THEN -1
    ELSE IF s[start] = char THEN start
    ELSE find(s, char, start + 1)

(* ----------------------- condition.py: tokenizer ---------------------- *)
keywords == {AND, OR, NOT, TRUE_, FALSE_}
operators == {NE, EQ, GE, LE, GT, LT}

\* tokens.append(token) if token != ''
Flush(tokens, token) == IF token # <<>> THEN Append(tokens, token) ELSE tokens

\* tokenizer_loop taking a character it does not know into the current token
RECURSIVE tokenizer_loop_any(_, _, _, _)
tokenizer_loop_any(s, i, tokens, token) ==
    IF i > Len(s) THEN Value(Flush(tokens, token))
    ELSE LET char == s[i]
             two == IF i + 1 <= Len(s) THEN SubSeq(s, i, i + 1) ELSE <<>>
         IN  IF char = " "
             THEN tokenizer_loop_any(s, i + 1, Flush(tokens, token), <<>>)
             ELSE IF <<char>> \in operators \/ two \in operators
             THEN LET operator == IF two \in operators THEN two ELSE <<char>>
                  IN  tokenizer_loop_any(s, i + Len(operator),
                                         Append(Flush(tokens, token), operator), <<>>)
             ELSE IF char \in {"(", ")"}
             THEN tokenizer_loop_any(s, i + 1, Append(Flush(tokens, token), <<char>>), <<>>)
             ELSE IF char = QUOTE
             THEN LET end_of_string == find(s, QUOTE, i + 1)
                  IN  IF end_of_string = -1
                      THEN ValueError("Unterminated string literal")
                      ELSE tokenizer_loop_any(s, end_of_string + 1,
                                              Append(Flush(tokens, token),
                                                     SubSeq(s, i, end_of_string)), <<>>)
             ELSE IF Append(token, char) \in keywords
                       /\ (i = Len(s) \/ ~isalnum(s[i + 1]))
                  THEN tokenizer_loop_any(s, i + 1, Append(tokens, Append(token, char)), <<>>)
                  ELSE tokenizer_loop_any(s, i + 1, tokens, Append(token, char))

\* the while loop of tokenizer (lines 87-130) from index i on, and lines 131-134;
\* indices count from 1
RECURSIVE tokenizer_loop(_, _, _, _)
tokenizer_loop(s, i, tokens, token) ==
    IF i > Len(s) THEN Value(Flush(tokens, token))
    ELSE LET char == s[i]
             two == IF i + 1 <= Len(s) THEN SubSeq(s, i, i + 1) ELSE <<>>
         IN  IF char = " "
             THEN tokenizer_loop(s, i + 1, Flush(tokens, token), <<>>)
             ELSE IF <<char>> \in operators \/ two \in operators
             THEN LET operator == IF two \in operators THEN two ELSE <<char>>
                  IN  tokenizer_loop(s, i + Len(operator),
                                     Append(Flush(tokens, token), operator), <<>>)
             ELSE IF char \in {"(", ")"}
             THEN tokenizer_loop(s, i + 1, Append(Flush(tokens, token), <<char>>), <<>>)
             ELSE IF char = QUOTE
             THEN LET end_of_string == find(s, QUOTE, i + 1)
                  IN  IF end_of_string = -1
                      THEN ValueError("Unterminated string literal")
                      ELSE tokenizer_loop(s, end_of_string + 1,
                                          Append(Flush(tokens, token),
                                                 SubSeq(s, i, end_of_string)), <<>>)
             ELSE IF char \in Digits \cup {"."}
             THEN tokenizer_loop(s, i + 1, tokens, Append(token, char))
             ELSE IF isalpha(char) \/ char \in {"-", "_"}
             THEN IF Append(token, char) \in keywords
                       /\ (i = Len(s) \/ ~isalnum(s[i + 1]))
                  THEN tokenizer_loop(s, i + 1, Append(tokens, Append(token, char)), <<>>)
                  ELSE tokenizer_loop(s, i + 1, tokens, Append(token, char))
             ELSE ValueError("Unknown character")

\* tokenizer(s)
tokenizer(s) == tokenizer_loop(s, 1, <<>>, <<>>)

(* --------------------- condition.py: infix_to_rpn --------------------- *)
Top(stack) == stack[Len(stack)]
Pop(stack) == SubSeq(stack, 1, Len(stack) - 1)

\* the while loop of lines 156-158: pop to the output the operators on top of
\* the stack that bind at least as tightly as token; [out, ops]
RECURSIVE PopTighter(_, _, _)
PopTighter(token, output_queue, operator_stack) ==
    IF /\ operator_stack # <<>>
       /\ Top(operator_stack) \in DOMAIN precedence
       /\ precedence[token] <= precedence[Top(operator_stack)]
    THEN PopTighter(token, Append(output_queue, Top(operator_stack)), Pop(operator_stack))
    ELSE [out |-> output_queue, ops |-> operator_stack]

\* the while loop of lines 163-164: pop to the output down to the nearest "("
RECURSIVE PopToParen(_, _)
PopToParen(output_queue, operator_stack) ==
    IF operator_stack # <<>> /\ Top(operator_stack) # LPAREN
    THEN PopToParen(Append(output_queue, Top(operator_stack)), Pop(operator_stack))
    ELSE [out |-> output_queue, ops |-> operator_stack]

\* the while loop of lines 169-170
RECURSIVE PopAll(_, _)
PopAll(output_queue, operator_stack) ==
    IF operator_stack # <<>>
    THEN PopAll(Append(output_queue, Top(operator_stack)), Pop(operator_stack))
    ELSE output_queue

\* the for loop of infix_to_rpn from token i on, and lines 169-172
RECURSIVE infix_to_rpn_loop(_, _, _, _)
infix_to_rpn_loop(tokens, i, output_queue, operator_stack) ==
    IF i > Len(tokens) THEN Value(PopAll(output_queue, operator_stack))
    ELSE LET token == tokens[i]
         IN  IF token \in DOMAIN precedence
             THEN LET r == PopTighter(token, output_queue, operator_stack)
                  IN  infix_to_rpn_loop(tokens, i + 1, r.out, Append(r.ops, token))
             ELSE IF token = LPAREN
             THEN infix_to_rpn_loop(tokens, i + 1, output_queue,
                                    Append(operator_stack, token))
             ELSE IF token = RPAREN
             THEN LET r == PopToParen(output_queue, operator_stack)
                  IN  IF r.ops = <<>>
                      THEN IndexError("pop from empty list")
                      ELSE infix_to_rpn_loop(tokens, i + 1, r.out, Pop(r.ops))
             ELSE infix_to_rpn_loop(tokens, i + 1, Append(output_queue, token),
                                    operator_stack)

\* infix_to_rpn(tokens)
infix_to_rpn(tokens) == infix_to_rpn_loop(tokens, 1, <<>>, <<>>)

(* ----------------------- condition.py: create_ast --------------------- *)
Literal(value) == [type |-> "Literal", value |-> value]
UnaryExpression(operator, argument) ==
    [type |-> "UnaryExpression", operator |-> operator, argument |-> argument]
BinaryExpression(operator, left, right) ==
    [type |-> "BinaryExpression", operator |-> operator, left |-> left, right |-> right]
LogicalExpression(operator, left, right) ==
    [type |-> "LogicalExpression", operator |-> operator, left |-> left, right |-> right]

\* create_ast_loop returning the top of the final stack, whatever lies below it
RECURSIVE create_ast_loop_top(_, _, _)
create_ast_loop_top(rpn_tokens, i, stack) ==
    IF i > Len(rpn_tokens)
    THEN IF Len(stack) < 1
         THEN ValueError("Malformed expression: the final stack contained more than one element")
         ELSE Value(Top(stack))
    ELSE LET token == rpn_tokens[i]
         IN  IF token \notin DOMAIN precedence /\ token \notin {EQ, NE, GT, LT, GE, LE}
             THEN create_ast_loop_top(rpn_tokens, i + 1, Append(stack, Literal(token)))
             ELSE IF token \in {EQ, NE, GT, LT, GE, LE}
             THEN IF Len(stack) < 2
                  THEN ValueError("Malformed expression: insufficient operands for operator")
                  ELSE create_ast_loop_top(rpn_tokens, i + 1,
                          Append(Pop(Pop(stack)),
                                 BinaryExpression(token, Top(Pop(stack)), Top(stack))))
             ELSE IF token = NOT
             THEN IF Len(stack) < 1
                  THEN ValueError("Malformed expression: insufficient operand for operator")
                  ELSE create_ast_loop_top(rpn_tokens, i + 1,
                          Append(Pop(stack), UnaryExpression(token, Top(stack))))
             ELSE IF Len(stack) < 2
                  THEN ValueError("Malformed expression: insufficient operands for operator")
                  ELSE create_ast_loop_top(rpn_tokens, i + 1,
                          Append(Pop(Pop(stack)),
                                 LogicalExpression(token, Top(Pop(stack)), Top(stack))))

\* the for loop of create_ast from token i on, and lines 223-226
RECURSIVE create_ast_loop(_, _, _)
create_ast_loop(rpn_tokens, i, stack) ==
    IF i > Len(rpn_tokens)
    THEN IF Len(stack) # 1
         THEN ValueError("Malformed expression: the final stack contained more than one element")
         ELSE Value(stack[1])
    ELSE LET token == rpn_tokens[i]
         IN  IF token \notin DOMAIN precedence /\ token \notin {EQ, NE, GT, LT, GE, LE}
             THEN create_ast_loop(rpn_tokens, i + 1, Append(stack, Literal(token)))
             ELSE IF token \in {EQ, NE, GT, LT, GE, LE}
             THEN IF Len(stack) < 2
                  THEN ValueError("Malformed expression: insufficient operands for operator")
                  ELSE create_ast_loop(rpn_tokens, i + 1,
                          Append(Pop(Pop(stack)),
                                 BinaryExpression(token, Top(Pop(stack)), Top(stack))))
             ELSE IF token = NOT
             THEN IF Len(stack) < 1
                  THEN ValueError("Malformed expression: insufficient operand for operator")
                  ELSE create_ast_loop(rpn_tokens, i + 1,
                          Append(Pop(stack), UnaryExpression(token, Top(stack))))
             ELSE IF Len(stack) < 2
                  THEN ValueError("Malformed expression: insufficient operands for operator")
                  ELSE create_ast_loop(rpn_tokens, i + 1,
                          Append(Pop(Pop(stack)),
                                 LogicalExpression(token, Top(Pop(stack)), Top(stack))))

\* create_ast(rpn_tokens)
create_ast(rpn_tokens) == create_ast_loop(rpn_tokens, 1, <<>>)

(* ---------------------- condition.py: ast_to_dict --------------------- *)
\* Python values: True/False are [bool |-> b], a str is [str |-> characters], an
\* int is [int |-> n], a float is [float |-> decimal], the dict {key: v} is
\* [dict |-> key, value |-> v] and the dict {key: [l, r]} is
\* [dict |-> key, list |-> <<l, r>>].
Bool(b) == [bool |-> b]
Str(text) == [str |-> text]
Dict1(key, v) == [dict |-> key, value |-> v]
Dict2(key, l, r) == [dict |-> key, list |-> <<l, r>>]

\* a run of digits with single underscores between digits, as int() and
\* float() accept it
IsDigitPart(t) ==
    /\ t # <<>>
    /\ t[1] \in Digits
    /\ t[Len(t)] \in Digits
    /\ \A i \in 1..Len(t) :
          /\ t[i] \in Digits \cup {"_"}
          /\ i < Len(t) => ~(t[i] = "_" /\ t[i + 1] = "_")

DigitValue(char) == CHOOSE d \in 0..9 : ToString(d) = char

\* the natural number a digit part denotes
RECURSIVE NatOf(_, _)
NatOf(t, acc) ==
    IF t = <<>> THEN acc
    ELSE IF Head(t) = "_" THEN NatOf(Tail(t), acc)
    ELSE NatOf(Tail(t), 10 * acc + DigitValue(Head(t)))

\* the number of digits of a digit part, or of the empty text
DigitCount(t) == Len(SelectSeq(t, LAMBDA c : c \in Digits))

\* int(value) of a token: the tokenizer admits no "+" and no space
int(value) ==
    LET neg == value # <<>> /\ Head(value) = "-"
        body == IF neg THEN Tail(value) ELSE value
    IN  IF IsDigitPart(body)
        THEN Value([int |-> IF neg THEN 0 - NatOf(body, 0) ELSE NatOf(body, 0)])
        ELSE ValueError("invalid literal for int()")

\* m * 10^e with no factor 10 left in m
RECURSIVE Decimal(_, _, _)
Decimal(neg, m, e) ==
    IF m = 0 THEN [neg |-> neg, m |-> 0, e |-> 0]
    ELSE IF m % 10 = 0 THEN Decimal(neg, m \div 10, e + 1)
    ELSE [neg |-> neg, m |-> m, e |-> e]

\* float(value) of a token that holds a ".": [-] digits "." digits, one of the
\* two digit parts possibly empty, then an optional exponent e[-]digits.  The
\* value is kept as an exact decimal.
float(value) ==
    LET neg == value # <<>> /\ Head(value) = "-"
        body == IF neg THEN Tail(value) ELSE value
        at_e == find(body, "e", 1)
        mantissa == IF at_e = -1 THEN body ELSE SubSeq(body, 1, at_e - 1)
        exponent == IF at_e = -1 THEN <<>> ELSE SubSeq(body, at_e + 1, Len(body))
        eneg == exponent # <<>> /\ Head(exponent) = "-"
        ebody == IF eneg THEN Tail(exponent) ELSE exponent
        dot == find(mantissa, ".", 1)
        ip == IF dot = -1 THEN mantissa ELSE SubSeq(mantissa, 1, dot - 1)
        fp == IF dot = -1 THEN <<>> ELSE SubSeq(mantissa, dot + 1, Len(mantissa))
        e == IF at_e = -1 THEN 0
             ELSE IF eneg THEN 0 - NatOf(ebody, 0) ELSE NatOf(ebody, 0)
    IN  IF /\ ip = <<>> \/ IsDigitPart(ip)
           /\ fp = <<>> \/ IsDigitPart(fp)
           /\ ip # <<>> \/ fp # <<>>
           /\ at_e # -1 => IsDigitPart(ebody)
        THEN Value([float |-> Decimal(neg, NatOf(ip \o fp, 0), e - DigitCount(fp))])
        ELSE ValueError("could not convert string to float")

\* f'@variables(\'{value}\')'
variables(value) ==
    <<"@", "v", "a", "r", "i", "a", "b", "l", "e", "s", "(", "'">> \o value \o <<"'", ")">>

\* ast_to_dict of a Literal node with the literal lowered as a variable reference
\* before the number conversion is tried
literal_to_dict_no_numbers(value) ==
    IF value = TRUE_ THEN Bool(TRUE)
    ELSE IF value = FALSE_ THEN Bool(FALSE)
    ELSE IF QUOTE \in Range(value)
    THEN Str(SelectSeq(value, LAMBDA c : c # QUOTE))
    ELSE Str(variables(value))

\* ast_to_dict of a Literal node (lines 248-260)
literal_to_dict(value) ==
    IF value = TRUE_ THEN Bool(TRUE)
    ELSE IF value = FALSE_ THEN Bool(FALSE)
    ELSE IF QUOTE \in Range(value)
    THEN Str(SelectSeq(value, LAMBDA c : c # QUOTE))
    ELSE LET number == IF "." \in Range(value) THEN float(value) ELSE int(value)
         IN  IF number.ok THEN number.value ELSE Str(variables(value))

\* ast_to_dict without the special case of lines 271-272
RECURSIVE ast_to_dict_plain(_)
ast_to_dict_plain(node) ==
    IF node.type = "Literal" THEN literal_to_dict(node.value)
    ELSE IF node.type = "UnaryExpression"
    THEN Dict1(operator_mapping[node.operator], ast_to_dict_plain(node.argument))
    ELSE Dict2(operator_mapping[node.operator],
               ast_to_dict_plain(node.left), ast_to_dict_plain(node.right))

\* ast_to_dict(node)
RECURSIVE ast_to_dict(_)
ast_to_dict(node) ==
    IF node.type = "Literal" THEN literal_to_dict(node.value)
    ELSE IF node.type = "UnaryExpression"
    THEN Dict1(operator_mapping[node.operator], ast_to_dict(node.argument))
    ELSE LET operator == operator_mapping[node.operator]
             left == ast_to_dict(node.left)
             right == ast_to_dict(node.right)
         IN  IF operator = "not_equals"
             THEN Dict1("not", Dict2("equals", left, right))
             ELSE Dict2(operator, left, right)

(* ----------------------- condition.py: Condition ---------------------- *)
\* Condition.__init__: the object with its ast, or the exception that leaves it
Condition(text) ==
    LET tokens == tokenizer(text)
        rpn_tokens == IF tokens.ok THEN infix_to_rpn(tokens.value) ELSE tokens
        ast == IF rpn_tokens.ok THEN create_ast(rpn_tokens.value) ELSE rpn_tokens
    IN  IF ast.ok THEN Value([ast |-> ast.value]) ELSE ast

\* Condition.export
export_condition(self) == ast_to_dict(self.ast)

\* Condition(text).export(): the compile of the specification
compile(text) ==
    LET c == Condition(text)
    IN  IF c.ok THEN Value(export_condition(c.value)) ELSE c

(* ------------------------------ actions ------------------------------- *)
\* The caller's program.  A call that raises leaves the caller with the world as
\* it was when the exception was raised and with last_ok = FALSE.  Actions()
\* touches no object that exists already, so the caller constructs its graphs
\* first.  The node a call inserts is a node of the heap or is constructed in
\* the argument of the call, g.append(SomeAction(name, ...)); when that call
\* raises, nothing refers to the rejected node any more.
Objs == 1..Len(heap)
Graphs == 1..Len(graphs)

\* the action nodes; the sentinels are internal to their graphs
\* the graphs clone() and + returned
Derived == {g \in Graphs : graphs[g].origin.op # "new"}

ActionObjs == {n \in Objs : heap[n].cls # "SkeltonNode"}

\* the constructor calls the caller may still make
CanBuild(cls) ==
    /\ Len(heap) < MaxObj
    /\ built.nodes < MaxBuilt
    /\ cls = "InitVariableAction" => built.init_variables < MaxInitVariable

\* SomeAction(name, ...), its payload the serial number of the construction
Build(name, cls) == NewObject(World, name, cls, built.nodes + 1)

Built(cls) ==
    [built EXCEPT !.nodes = @ + 1,
                  !.init_variables = IF cls = "InitVariableAction" THEN @ + 1 ELSE @]

Outcome(r) ==
    /\ heap' = r.w.heap
    /\ cells' = r.w.cells
    /\ graphs' = r.w.graphs
    /\ last_ok' = r.ok
    /\ UNCHANGED cvars
    /\ UNCHANGED rvars

\* the outcome of a call whose argument was constructed for it
OutcomeFresh(r, cls) ==
    IF r.ok
    THEN Outcome(r) /\ built' = Built(cls)
    ELSE /\ UNCHANGED <<heap, cells, graphs, built>>
         /\ last_ok' = FALSE
         /\ UNCHANGED cvars
         /\ UNCHANGED rvars

Init ==
    /\ heap = <<>>
    /\ cells = <<>>
    /\ graphs = <<>>
    /\ built = [nodes |-> 0, init_variables |-> 0, edits |-> 0]
    /\ last_ok = TRUE
    /\ expression = [text |-> <<>>, pieces |-> 0]
    /\ condition = [called |-> FALSE]
    /\ exported = [called |-> FALSE]
    /\ definition = <<>>
    /\ raw = [called |-> FALSE]

\* g = Actions(is_root)
CallNewActions ==
    /\ Len(graphs) < MaxBase
    /\ Len(heap) = Len(graphs)
    /\ \E is_root \in BOOLEAN : Outcome(Return(NewActions(World, is_root)))
    /\ UNCHANGED built

\* what a call can be given as the node to insert: [w, n, fresh, cls], n a node
\* of the heap, or the node SomeAction(name, ...) constructs in the call
Given ==
    {[w |-> World, n |-> n, fresh |-> FALSE, cls |-> heap[n].cls] : n \in ActionObjs}
    \cup {[w |-> NewObject(World, name, cls, built.nodes + 1), n |-> Len(heap) + 1,
            fresh |-> TRUE, cls |-> cls] : name \in Names, cls \in Classes}

\* g.add_top(n)
CallAddTop ==
    \E g \in Graphs :
        \/ \E n \in ActionObjs :
              /\ Outcome(add_top(World, g, n))
              /\ UNCHANGED built
        \/ \E name \in Names, cls \in Classes :
              /\ CanBuild(cls)
              /\ OutcomeFresh(add_top(Build(name, cls), g, Len(heap) + 1), cls)

\* g.add_after(n, p, force_exec, exec_if_failed)
CallAddAfter ==
    \E g \in Graphs, p \in Objs, f \in BOOLEAN, e \in BOOLEAN :
        \/ \E n \in ActionObjs :
              /\ Outcome(add_after(World, g, n, p, f, e))
              /\ UNCHANGED built
        \/ \E name \in Names, cls \in Classes :
              /\ CanBuild(cls)
              /\ OutcomeFresh(add_after(Build(name, cls), g, Len(heap) + 1, p, f, e), cls)

\* g.append(n, force_exec, exec_if_failed)
CallAppend ==
    \E g \in Graphs, f \in BOOLEAN, e \in BOOLEAN :
        \/ \E n \in ActionObjs :
              /\ Outcome(append(World, g, n, f, e))
              /\ UNCHANGED built
        \/ \E name \in Names, cls \in Classes :
              /\ CanBuild(cls)
              /\ OutcomeFresh(append(Build(name, cls), g, Len(heap) + 1, f, e), cls)

\* g2 = g.clone()
CallClone ==
    /\ Cardinality(Derived) < MaxDerived
    /\ \E g \in Graphs :
          /\ Len(heap) + Cardinality(DOMAIN graphs[g].nodes) <= MaxObj
          /\ \E r \in deepcopy(World, g) : Outcome(r)
    /\ UNCHANGED built

\* g3 = g1 + g2
CallAddActions ==
    /\ Cardinality(Derived) < MaxDerived
    /\ \E a \in Graphs, b \in Graphs :
          /\ Len(heap) + Cardinality(DOMAIN graphs[a].nodes)
                + Cardinality(DOMAIN graphs[b].nodes) - 1 <= MaxObj
          /\ \E r \in add_actions(World, a, b) : Outcome(r)
    /\ UNCHANGED built

\* g2 = g + n
CallAddAction ==
    /\ Cardinality(Derived) < MaxDerived
    /\ \E a \in Graphs, n \in ActionObjs :
          /\ Len(heap) + Cardinality(DOMAIN graphs[a].nodes) + 1 <= MaxObj
          /\ \E r \in add_action(World, a, n) : Outcome(r)
    /\ UNCHANGED built

\* the caller edits a node's payload in place
CallSetPayload ==
    /\ built.edits < MaxEdits
    /\ \E n \in ActionObjs :
          /\ cells[heap[n].inputs] # 0
          /\ Outcome(Return(set_payload(World, n, 0)))
    /\ built' = [built EXCEPT !.edits = @ + 1]

Next ==
    \/ CallNewActions
    \/ CallAddTop
    \/ CallAddAfter
    \/ CallAppend
    \/ CallClone
    \/ CallAddActions
    \/ CallAddAction

\* the graph engine under every call that builds, copies and merges graphs
Spec == Init /\ [][Next]_vars

\* g2 = n + g
CallNodeAddActions ==
    /\ Cardinality(Derived) < MaxDerived
    /\ \E b \in Graphs :
          /\ Len(heap) + Cardinality(DOMAIN graphs[b].nodes) + 1 <= MaxObj
          /\ \/ \E n \in ActionObjs :
                   /\ \E r \in node_add_actions(World, n, b) : Outcome(r)
                   /\ UNCHANGED built
             \/ \E name \in Names, cls \in Classes :
                   /\ CanBuild(cls)
                   /\ \E r \in node_add_actions(Build(name, cls), Len(heap) + 1, b) :
                         OutcomeFresh(r, cls)

\* g = n + m, m a node the caller holds
CallNodeAddNode ==
    /\ Cardinality(Derived) < MaxDerived
    /\ Len(heap) + 4 <= MaxObj
    /\ \E m \in ActionObjs :
          \/ \E n \in ActionObjs :
                /\ Outcome(node_add_node(World, n, m))
                /\ UNCHANGED built
          \/ \E name \in Names, cls \in Classes :
                /\ CanBuild(cls)
                /\ OutcomeFresh(node_add_node(Build(name, cls), Len(heap) + 1, m), cls)

NextNodeAdd ==
    \/ CallNewActions
    \/ CallAppend
    \/ CallNodeAddActions
    \/ CallNodeAddNode

\* a caller that puts a single node on the left of +
SpecNodeAdd == Init /\ [][NextNodeAdd]_vars

NextPayload ==
    \/ CallNewActions
    \/ CallAppend
    \/ CallClone
    \/ CallSetPayload

\* a caller that also edits payloads in place
SpecPayload == Init /\ [][NextPayload]_vars

(* ----------------------- the expression compiler ---------------------- *)
\* The caller writes the text of an expression, constructs Condition(text), and
\* calls export() on the object when the constructor returned one.

\* the characters a caller types one at a time
Characters == {" ", "(", ")", "=", "!", ">", QUOTE, "1", ".", "a", "-", "_", "#"}

\* what a caller types in one step: a character, or one of two keywords
Pieces == {<<c>> : c \in Characters} \cup {NOT, TRUE_}

\* the words a caller joins with single spaces
Words == {<<"a">>, FALSE_, EQ, NE, NOT, AND, OR, LPAREN, RPAREN}

\* the caller types one more piece of the expression
WriteCharacter ==
    /\ ~condition.called
    /\ expression.pieces < MaxPieces
    /\ \E piece \in Pieces :
          expression' = [text |-> expression.text \o piece,
                         pieces |-> expression.pieces + 1]
    /\ UNCHANGED <<condition, exported>>
    /\ UNCHANGED gvars
    /\ UNCHANGED rvars

\* the caller adds one more word to the expression, after a space
WriteWord ==
    /\ ~condition.called
    /\ expression.pieces < MaxWords
    /\ \E word \in Words :
          expression' = [text |-> IF expression.text = <<>> THEN word
                                  ELSE expression.text \o <<" ">> \o word,
                         pieces |-> expression.pieces + 1]
    /\ UNCHANGED <<condition, exported>>
    /\ UNCHANGED gvars
    /\ UNCHANGED rvars

\* c = Condition(expression)
CallCondition ==
    /\ ~condition.called
    /\ condition' = [called |-> TRUE, result |-> Condition(expression.text)]
    /\ UNCHANGED <<expression, exported>>
    /\ UNCHANGED gvars
    /\ UNCHANGED rvars

\* c.export()
CallExport ==
    /\ condition.called
    /\ condition.result.ok
    /\ ~exported.called
    /\ exported' = [called |-> TRUE, value |-> export_condition(condition.result.value)]
    /\ UNCHANGED <<expression, condition>>
    /\ UNCHANGED gvars
    /\ UNCHANGED rvars

NextText ==
    \/ WriteCharacter
    \/ CallCondition
    \/ CallExport

\* the compiler on every text of a few characters
SpecText == Init /\ [][NextText]_vars

NextCondition ==
    \/ WriteWord
    \/ CallCondition
    \/ CallExport

\* the compiler on every expression of a few words
SpecCondition == Init /\ [][NextCondition]_vars

(* ---------------------------- RawActions ------------------------------ *)
\* The caller writes a definition entry by entry, constructs
\* RawActions(definition), and calls validation() and export() on it.

\* the names of the entries, and the names a runAfter may list
EntryNames == {"a", "b", "c"}

\* the values of the entries
Nodes ==
    {NoDict}
    \cup {Dict(keys \cup {"runAfter"}, names) :
             keys \in {{"type", "inputs", "metadata"}, {"type", "inputs"},
                       {"inputs", "metadata"}, {}},
             names \in {{}, {"a"}, {"b"}, {"c"}, {"a", "b"}}}
    \cup {Dict(keys, {}) :
             keys \in {{"type", "inputs", "metadata"}, {"type", "inputs"},
                       {"inputs", "metadata"}, {}}}

\* the caller adds an entry under a name the definition does not have yet
WriteEntry ==
    /\ ~raw.called
    /\ Len(definition) < MaxEntries
    /\ \E name \in EntryNames \ {definition[i].name : i \in DOMAIN definition},
          node \in Nodes :
          definition' = Append(definition, Entry(name, node))
    /\ UNCHANGED raw
    /\ UNCHANGED gvars
    /\ UNCHANGED cvars

\* r = RawActions(definition); r.validation()
CallValidation ==
    /\ ~raw.called
    /\ raw' = [called |-> TRUE, exported |-> FALSE, validation |-> validation(definition)]
    /\ UNCHANGED definition
    /\ UNCHANGED gvars
    /\ UNCHANGED cvars

\* r.export()
CallRawExport ==
    /\ raw.called
    /\ ~raw.exported
    /\ raw' = [called |-> TRUE, exported |-> TRUE, validation |-> raw.validation,
               export |-> export_raw(definition)]
    /\ UNCHANGED definition
    /\ UNCHANGED gvars
    /\ UNCHANGED cvars

NextRaw ==
    \/ WriteEntry
    \/ CallValidation
    \/ CallRawExport

\* RawActions on every definition of a few entries
SpecRaw == Init /\ [][NextRaw]_vars

(* ------------------------------- claims ------------------------------- *)
\* A claim about a call is stated over the outcome of the call on every input
\* the caller can give in the current state.

Registered(w, g) == Range(w.graphs[g].nodes)

\* the copies a + b made of the nodes of a: the first objects it allocated
LeftCopies(a) == (Len(heap) + 1)..(Len(heap) + Cardinality(DOMAIN graphs[a].nodes))

\* the copies a + b made of the action nodes of b: the objects it allocated next
RightCopies(a, r) == (Len(heap) + Cardinality(DOMAIN graphs[a].nodes) + 1)..Len(r.w.heap)

\* the copy of node among copies
CopyOf(r, copies, node) == CHOOSE c \in copies : r.w.heap[c].copy_of = node

\* C1: in a + b every copy of a top-level node of b is registered in the result,
\* is a child of the copy of a's last_update_node and has the dependency map
\* {name of that copy: {Succeeded}}, or the empty map when a's last_update_node
\* is a's sentinel (the node is then top-level in the result).
C1_MergeAttachesBelowLast ==
    \A a \in Graphs, b \in Graphs : \A r \in add_actions(World, a, b) :
        /\ r.ok
        /\ LET m == Len(r.w.graphs)
               last == graphs[a].last_update_node
               below == CopyOf(r, LeftCopies(a), last)
           IN  /\ r.w.graphs[m].nodes[heap[last].action_name] = below
               /\ last = graphs[a].root_node => below = r.w.graphs[m].root_node
               /\ \A y \in heap[graphs[b].root_node].next_nodes :
                     /\ \E c \in RightCopies(a, r) : r.w.heap[c].copy_of = y
                     /\ \A c \in RightCopies(a, r) :
                           r.w.heap[c].copy_of = y =>
                              /\ c \in Registered(r.w, m)
                              /\ c \in r.w.heap[below].next_nodes
                              /\ r.w.heap[c].runafter =
                                    IF last = graphs[a].root_node
                                    THEN EmptyDict
                                    ELSE [k \in {r.w.heap[below].action_name} |->
                                             {"Succeeded"}]

\* a + b was called with a's last node an action X and b holding a top-level Y,
\* and the result holds a copy of Y that runs after the copy of X
C1_Witness ==
    \E m \in Derived :
        LET a == graphs[m].origin.lhs
            b == graphs[m].origin.rhs
        IN  /\ graphs[m].origin.op = "add"
            /\ a # b
            /\ graphs[a].last_update_node # graphs[a].root_node
            /\ \E c \in Registered(World, m) :
                  /\ heap[c].copy_of \in heap[graphs[b].root_node].next_nodes
                  /\ heap[c].runafter =
                        [k \in {heap[graphs[a].last_update_node].action_name} |->
                            {"Succeeded"}]
                  /\ heap[c].runafter # EmptyDict

\* the four conditions of an insertion, read off the world before the call
Insertable(i, g) ==
    /\ i.n \notin Registered(i.w, g)
    /\ ~i.w.heap[i.n].have_parent_node
    /\ i.w.heap[i.n].cls = "InitVariableAction" => i.w.graphs[g].is_root_actions

\* the nodes a caller can name as the reference of add_after
References(i) == 1..Len(i.w.heap)

\* C2: an insertion succeeds exactly when the node is not registered in the
\* graph, has no parent, the reference node of add_after is registered in the
\* graph, and the node is no InitVariableAction unless the graph is root-level;
\* otherwise it raises the validation error.
C2_InsertionSucceedsExactly ==
    \A g \in Graphs, i \in Given :
        /\ add_top(i.w, g, i.n).ok <=> Insertable(i, g)
        /\ \A f \in BOOLEAN, e \in BOOLEAN :
              /\ append(i.w, g, i.n, f, e).ok <=> Insertable(i, g)
              /\ \A p \in References(i) :
                    add_after(i.w, g, i.n, p, f, e).ok
                        <=> (Insertable(i, g) /\ p \in Registered(i.w, g))

\* an insertion was rejected in a graph that holds a node, and another graph exists
C2_Witness ==
    /\ ~last_ok
    /\ Len(graphs) >= 2
    /\ \E g \in Graphs : Cardinality(DOMAIN graphs[g].nodes) >= 2

\* C3: an insertion that raises the validation error leaves the whole world as
\* it was: registries, last_update_node, every node's children and dependency
\* map, and the rejected node's name, have_parent_node and dependency map.
C3_FailedInsertionChangesNothing ==
    \A g \in Graphs, i \in Given :
        /\ LET r == add_top(i.w, g, i.n) IN ~r.ok => r.w = i.w
        /\ \A f \in BOOLEAN, e \in BOOLEAN :
              /\ LET r == append(i.w, g, i.n, f, e) IN ~r.ok => r.w = i.w
              /\ \A p \in References(i) :
                    LET r == add_after(i.w, g, i.n, p, f, e) IN ~r.ok => r.w = i.w

\* an insertion was rejected by a graph that is not root-level and holds a node
C3_Witness ==
    /\ ~last_ok
    /\ \E g \in Graphs :
          /\ ~graphs[g].is_root_actions
          /\ Cardinality(DOMAIN graphs[g].nodes) >= 2

Suffixed(name, c) == name \o "_" \o ToString(c)

\* name itself when it is free in the registry, else name with the first of
\* the suffixes _1, _2, ... that is free
FirstFree(reg, name) ==
    IF name \notin DOMAIN reg THEN name
    ELSE Suffixed(name,
                  CHOOSE c \in 1..(Cardinality(DOMAIN reg) + 1) :
                      /\ Suffixed(name, c) \notin DOMAIN reg
                      /\ \A d \in 1..(c - 1) : Suffixed(name, d) \in DOMAIN reg)

\* what C4 says of a successful insertion r of i.n into g
RegisteredUnderFirstFree(i, g, r) ==
    r.ok =>
        LET reg == i.w.graphs[g].nodes
            name == FirstFree(reg, i.w.heap[i.n].action_name)
        IN  /\ r.w.heap[i.n].action_name = name
            /\ r.w.graphs[g].nodes = DictPut(reg, name, i.n)
            /\ \A k \in DOMAIN reg : r.w.heap[reg[k]].action_name = k
            /\ DOMAIN export(r.w, g) = (DOMAIN reg \cup {name}) \ {"root"}

\* C4: in every graph each registry key is the name of the node it maps to and
\* no two keys map to one node; a successful insertion registers the node under
\* its own name when that is free and else under the name with the first free
\* suffix _1, _2, ..., keeps the earlier entries, and export() lists them all.
C4_NamesStayUnique ==
    /\ \A g \in Graphs :
          LET reg == graphs[g].nodes
          IN  /\ \A k \in DOMAIN reg : heap[reg[k]].action_name = k
              /\ \A k1 \in DOMAIN reg, k2 \in DOMAIN reg : reg[k1] = reg[k2] => k1 = k2
    /\ \A g \in Graphs, i \in Given :
          /\ RegisteredUnderFirstFree(i, g, add_top(i.w, g, i.n))
          /\ RegisteredUnderFirstFree(i, g, append(i.w, g, i.n, FALSE, FALSE))
          /\ \A p \in Registered(i.w, g) :
                RegisteredUnderFirstFree(i, g, add_after(i.w, g, i.n, p, FALSE, FALSE))

\* a graph holds a node that was renamed with the suffix _2
C4_Witness ==
    \E g \in Graphs :
        /\ {"a", "a_1", "a_2"} \subseteq DOMAIN graphs[g].nodes
        /\ DOMAIN export(World, g) = DOMAIN graphs[g].nodes \ {"root"}

\* state_set(mode) of the specification
StateSet(force_exec, exec_if_failed) ==
    IF force_exec THEN {"Succeeded", "Failed", "Skipped", "TimedOut"}
    ELSE IF exec_if_failed THEN {"Failed"}
    ELSE {"Succeeded"}

\* every required-state set of every dependency map is one of the three
OnlyThreeStateSets ==
    \A n \in Objs : \A k \in DOMAIN heap[n].runafter :
        heap[n].runafter[k] \in {StateSet(TRUE, FALSE), StateSet(FALSE, TRUE),
                                 StateSet(FALSE, FALSE)}

\* C5 as claimed: a successful add_after(node, existing, mode) makes node a
\* child of existing and sets node's dependency map to exactly
\* {existing.name: state_set(mode)}, for every registered existing; and no
\* required-state set other than the three is ever produced.
C5_AddAfterAlwaysNamesExisting ==
    /\ OnlyThreeStateSets
    /\ \A g \in Graphs, i \in Given, f \in BOOLEAN, e \in BOOLEAN :
       \A p \in References(i) :
          LET r == add_after(i.w, g, i.n, p, f, e)
          IN  r.ok =>
                /\ i.n \in r.w.heap[p].next_nodes
                /\ r.w.heap[i.n].runafter =
                       [k \in {r.w.heap[p].action_name} |-> StateSet(f, e)]

\* C5 amended: a successful add_after(node, existing, mode) makes node a child
\* of existing and sets node's dependency map to exactly
\* {existing.name: state_set(mode)} when existing is not the sentinel, and to
\* the empty map when existing is the sentinel; force_exec wins over
\* exec_if_failed; no required-state set other than the three is ever produced.
C5_AddAfterSetsDependency ==
    /\ OnlyThreeStateSets
    /\ \A g \in Graphs, i \in Given, f \in BOOLEAN, e \in BOOLEAN :
       \A p \in References(i) :
          LET r == add_after(i.w, g, i.n, p, f, e)
          IN  r.ok =>
                /\ i.n \in r.w.heap[p].next_nodes
                /\ r.w.heap[i.n].runafter =
                       IF p = i.w.graphs[g].root_node
                       THEN EmptyDict
                       ELSE [k \in {r.w.heap[p].action_name} |-> StateSet(f, e)]

\* one graph holds a node inserted below an action with force_exec, another
\* graph a node inserted below its sentinel by the same call
C5_Witness ==
    \E g \in Graphs, h \in Graphs :
        /\ graphs[g].origin.op = "new"
        /\ graphs[h].origin.op = "new"
        /\ \E n \in Registered(World, g) : \E k \in DOMAIN heap[n].runafter :
              /\ heap[n].runafter[k] = StateSet(TRUE, TRUE)
              /\ n \in heap[graphs[g].nodes[k]].next_nodes
        /\ \E n \in heap[graphs[h].root_node].next_nodes :
              heap[n].runafter = EmptyDict

\* C6: append(node, mode) has the outcome of add_after(node, last_update_node,
\* mode): both raise or both return, with the same world, and after a return
\* last_update_node is node.
C6_AppendIsAddAfterLast ==
    \A g \in Graphs, i \in Given, f \in BOOLEAN, e \in BOOLEAN :
        LET r == append(i.w, g, i.n, f, e)
        IN  /\ r = add_after(i.w, g, i.n, i.w.graphs[g].last_update_node, f, e)
            /\ r.ok => r.w.graphs[g].last_update_node = i.n

\* a graph the caller built holds a node inserted below its last inserted
\* action with exec_if_failed, and that node is now the last one
C6_Witness ==
    /\ last_ok
    /\ \E g \in Graphs :
          LET l == graphs[g].last_update_node
          IN  /\ graphs[g].origin.op = "new"
              /\ \E k \in DOMAIN heap[l].runafter :
                    /\ heap[l].runafter[k] = StateSet(FALSE, TRUE)
                    /\ l \in heap[graphs[g].nodes[k]].next_nodes

\* C7: a successful add_top(node) makes node a child of the sentinel with an
\* empty dependency map and the graph's last_update_node, so that the next
\* append links its node below node.
C7_AddTopAttachesBelowSentinel ==
    \A g \in Graphs, i \in Given :
        LET r == add_top(i.w, g, i.n)
        IN  r.ok =>
              /\ i.n \in r.w.heap[r.w.graphs[g].root_node].next_nodes
              /\ r.w.heap[i.n].runafter = EmptyDict
              /\ r.w.graphs[g].last_update_node = i.n
              /\ \A name \in Names :
                    LET w2 == NewObject(r.w, name, "Action", 0)
                        n2 == Len(w2.heap)
                        r2 == append(w2, g, n2, FALSE, FALSE)
                    IN  /\ r2.ok
                        /\ n2 \in r2.w.heap[i.n].next_nodes
                        /\ DOMAIN r2.w.heap[n2].runafter = {r.w.heap[i.n].action_name}

\* a graph that held a chain got a second top-level node, which is its last one
C7_Witness ==
    \E g \in Graphs :
        LET top == heap[graphs[g].root_node].next_nodes
        IN  /\ Cardinality(top) >= 2
            /\ graphs[g].last_update_node \in top
            /\ heap[graphs[g].last_update_node].runafter = EmptyDict
            /\ \E n \in top : heap[n].next_nodes # {}

\* C8: clone() returns a graph with the names of the original, the same
\* parent/child relation between the names, the same root-level flag and equal
\* payloads, made of fresh node objects (the sentinel included) with fresh
\* metadata ids, whose last_update_node is its node with the name of the
\* original's last_update_node.
C8_CloneIsIsomorphic ==
    \A g \in Graphs : \A r \in deepcopy(World, g) :
        /\ r.ok
        /\ LET c == Len(r.w.graphs)
               reg == graphs[g].nodes
               creg == r.w.graphs[c].nodes
           IN  /\ DOMAIN creg = DOMAIN reg
               /\ r.w.graphs[c].is_root_actions = graphs[g].is_root_actions
               /\ r.w.graphs[c].root_node = creg[heap[graphs[g].root_node].action_name]
               /\ r.w.graphs[c].last_update_node =
                      creg[heap[graphs[g].last_update_node].action_name]
               /\ \A k \in DOMAIN reg :
                     /\ creg[k] \notin Objs
                     /\ r.w.heap[creg[k]].action_name = k
                     /\ r.w.heap[creg[k]].cls = heap[reg[k]].cls
                     /\ r.w.cells[r.w.heap[creg[k]].inputs] = cells[heap[reg[k]].inputs]
                     /\ r.w.heap[creg[k]].metadata \notin {heap[x].metadata : x \in Objs}
                     /\ r.w.heap[creg[k]].next_nodes =
                            {creg[heap[x].action_name] : x \in heap[reg[k]].next_nodes}
               /\ \A k1 \in DOMAIN reg, k2 \in DOMAIN reg :
                     k1 # k2 =>
                        /\ creg[k1] # creg[k2]
                        /\ r.w.heap[creg[k1]].metadata # r.w.heap[creg[k2]].metadata

\* clone() returned the copy of a graph of two action nodes whose last node is an action
C8_Witness ==
    \E c \in Derived :
        LET g == graphs[c].origin.lhs
        IN  /\ graphs[c].origin.op = "clone"
            /\ DOMAIN graphs[c].nodes = DOMAIN graphs[g].nodes
            /\ Cardinality(DOMAIN graphs[c].nodes) >= 3
            /\ Registered(World, c) \cap Registered(World, g) = {}
            /\ graphs[c].last_update_node # graphs[c].root_node
            /\ heap[graphs[c].last_update_node].action_name =
                   heap[graphs[g].last_update_node].action_name

\* what a caller can observe of graph g in world w
View(w, g) ==
    [nodes |-> w.graphs[g].nodes,
     last_update_node |-> w.graphs[g].last_update_node,
     is_root_actions |-> w.graphs[g].is_root_actions,
     node |-> [n \in Registered(w, g) |->
                  [action_name |-> w.heap[n].action_name,
                   cls |-> w.heap[n].cls,
                   payload |-> w.cells[w.heap[n].inputs],
                   next_nodes |-> w.heap[n].next_nodes,
                   runafter |-> w.heap[n].runafter]]]

\* every way to change graph g of world w: a payload edit of one of its action
\* nodes, or the insertion of a newly constructed node
Changed(w, g) ==
    {set_payload(w, n, w.cells[w.heap[n].inputs] + 1) :
        n \in {x \in Registered(w, g) : ~IsSkelton(w, x)}}
    \cup UNION {LET w1 == NewObject(w, name, "Action", 0)
                    n == Len(w1.heap)
                IN  {add_top(w1, g, n).w, append(w1, g, n, FALSE, TRUE).w}
                    \cup {add_after(w1, g, n, p, TRUE, FALSE).w : p \in Registered(w, g)} :
                name \in Names}

\* C9: after g2 = g.clone(), editing the payload of a node of g2 or inserting a
\* node into g2 leaves what g shows unchanged (registry, payloads, child sets,
\* dependency maps, last_update_node), and changes to g leave g2 unchanged.
C9_CloneIsIndependent ==
    \A g \in Graphs : \A r \in deepcopy(World, g) :
        /\ r.ok
        /\ LET g2 == Len(r.w.graphs)
           IN  /\ \A w \in Changed(r.w, g2) :
                     /\ View(w, g) = View(r.w, g)
                     /\ View(w, g2) # View(r.w, g2)
               /\ \A w \in Changed(r.w, g) :
                     /\ View(w, g2) = View(r.w, g2)
                     /\ View(w, g) # View(r.w, g)

\* after g2 = g.clone() the payload of a node of g2 was edited and a node was
\* inserted into g2, and g shows the payload and the registry it had
C9_Witness ==
    \E g2 \in Derived :
        LET g == graphs[g2].origin.lhs
        IN  /\ graphs[g2].origin.op = "clone"
            /\ DOMAIN graphs[g].nodes \subseteq DOMAIN graphs[g2].nodes
            /\ DOMAIN graphs[g].nodes # DOMAIN graphs[g2].nodes
            /\ \E k \in DOMAIN graphs[g].nodes :
                  /\ cells[heap[graphs[g2].nodes[k]].inputs] = 0
                  /\ cells[heap[graphs[g].nodes[k]].inputs] # 0

\* C10: in a + b every node of a and every action node of b has exactly one
\* copy, the copies are the nodes of the result, and for every node n of b whose
\* parent p is not b's sentinel the copy of n is a child of the copy of p and
\* its dependency map has one key, the name the copy of p is registered under,
\* also when the copies were renamed.
C10_MergeKeepsInnerStructure ==
    \A a \in Graphs, b \in Graphs : \A r \in add_actions(World, a, b) :
        /\ r.ok
        /\ LET m == Len(r.w.graphs)
               left == LeftCopies(a)
               right == RightCopies(a, r)
               inner == Registered(World, b) \ {graphs[b].root_node}
           IN  /\ Registered(r.w, m) = left \cup right
               /\ \A x \in Registered(World, a) :
                     Cardinality({c \in left : r.w.heap[c].copy_of = x}) = 1
               /\ \A y \in inner :
                     Cardinality({c \in right : r.w.heap[c].copy_of = y}) = 1
               /\ Cardinality(left) = Cardinality(Registered(World, a))
               /\ Cardinality(right) = Cardinality(inner)
               /\ \A p \in inner : \A n \in heap[p].next_nodes :
                     LET pc == CopyOf(r, right, p)
                         nc == CopyOf(r, right, n)
                     IN  /\ nc \in r.w.heap[pc].next_nodes
                         /\ \A x \in Registered(r.w, m) :
                               nc \in r.w.heap[x].next_nodes => x = pc
                         /\ DOMAIN r.w.heap[nc].runafter = {r.w.heap[pc].action_name}
                         /\ r.w.heap[pc].action_name \in DOMAIN r.w.graphs[m].nodes
                         /\ r.w.graphs[m].nodes[r.w.heap[pc].action_name] = pc

\* a + b was called with b holding an action p and a child n of p, and in the
\* result the copies of both were renamed and the copy of n runs after the copy of p
C10_Witness ==
    \E m \in Derived :
        LET b == graphs[m].origin.rhs
        IN  /\ graphs[m].origin.op = "add"
            /\ \E pc \in Registered(World, m), nc \in Registered(World, m) :
                  LET p == heap[pc].copy_of
                      n == heap[nc].copy_of
                  IN  /\ pc > Len(heap) - 2
                      /\ nc > Len(heap) - 2
                      /\ p \in Registered(World, b) \ {graphs[b].root_node}
                      /\ n \in heap[p].next_nodes
                      /\ heap[pc].action_name # heap[p].action_name
                      /\ heap[nc].action_name # heap[n].action_name
                      /\ nc \in heap[pc].next_nodes
                      /\ DOMAIN heap[nc].runafter = {heap[pc].action_name}

\* what a + b must leave alone of operand g: all that View shows, and the
\* have_parent_node flag of every node of g
Operand(w, g) ==
    [view |-> View(w, g),
     have_parent_node |-> [n \in Registered(w, g) |-> w.heap[n].have_parent_node]]

\* C11: a + b, b a graph or a single node, leaves both operands as they were
\* (registry, last_update_node, root-level flag, every node's name, payload,
\* child set, dependency map and have_parent_node), whether it returns or
\* raises, and no node of the result is a node that existed before the call.
C11_MergeLeavesOperands ==
    /\ \A a \in Graphs, b \in Graphs : \A r \in add_actions(World, a, b) :
          /\ Operand(r.w, a) = Operand(World, a)
          /\ Operand(r.w, b) = Operand(World, b)
          /\ r.ok => Registered(r.w, Len(r.w.graphs)) \cap Objs = {}
    /\ \A a \in Graphs, i \in Given : \A r \in add_action(i.w, a, i.n) :
          /\ Operand(r.w, a) = Operand(i.w, a)
          /\ r.w.heap[i.n] = i.w.heap[i.n]
          /\ r.w.cells[i.w.heap[i.n].inputs] = i.w.cells[i.w.heap[i.n].inputs]
          /\ r.ok => Registered(r.w, Len(r.w.graphs)) \cap (Objs \cup {i.n}) = {}

\* a + b returned for two graphs a # b that hold action nodes, and a and b
\* still end in the nodes they ended in, which have no children
C11_Witness ==
    \E m \in Derived :
        LET a == graphs[m].origin.lhs
            b == graphs[m].origin.rhs
        IN  /\ graphs[m].origin.op = "add"
            /\ a # b
            /\ Cardinality(Registered(World, a)) >= 2
            /\ Cardinality(Registered(World, b)) >= 2
            /\ heap[graphs[a].last_update_node].next_nodes = {}
            /\ Registered(World, m) \cap (Registered(World, a) \cup Registered(World, b)) = {}

\* C12: a + b returns for every a and b, its root-level flag is the OR of the
\* flags of a and b, and the copy of every InitVariableAction of a and of b is
\* registered in it: the flag is set before the nodes of b are attached.
C12_MergeFlagIsOr ==
    \A a \in Graphs, b \in Graphs : \A r \in add_actions(World, a, b) :
        /\ r.ok
        /\ LET m == Len(r.w.graphs)
           IN  /\ r.w.graphs[m].is_root_actions =
                      (graphs[a].is_root_actions \/ graphs[b].is_root_actions)
               /\ \A x \in Registered(World, a) \cup Registered(World, b) :
                     IsInitVariable(World, x) =>
                        \E c \in Registered(r.w, m) :
                            /\ r.w.heap[c].copy_of = x
                            /\ IsInitVariable(r.w, c)

\* a + b returned for a graph a that is not root-level and a root-level b that
\* holds an InitVariableAction, whose copy the root-level result holds
C12_Witness ==
    \E m \in Derived :
        LET a == graphs[m].origin.lhs
            b == graphs[m].origin.rhs
        IN  /\ graphs[m].origin.op = "add"
            /\ ~graphs[a].is_root_actions
            /\ graphs[b].is_root_actions
            /\ graphs[m].is_root_actions
            /\ \E c \in Registered(World, m) :
                  /\ IsInitVariable(World, c)
                  /\ heap[c].copy_of \in Registered(World, b)

\* what C13 says of graph g in world w
ExportsRegistry(w, g) ==
    LET e == export(w, g)
        reg == w.graphs[g].nodes
        root == w.graphs[g].root_node
    IN  /\ reg["root"] = root
        /\ DOMAIN e = DOMAIN reg \ {"root"}
        /\ \A k \in DOMAIN e : e[k] = export_node(w, reg[k]) /\ reg[k] # root
        /\ \A n \in Range(reg) \ {root} : w.heap[n].action_name \in DOMAIN e
        /\ Cardinality(DOMAIN e) = Cardinality(Range(reg)) - 1

\* C13: in every graph, after any insertions, clones and merges, export() has
\* exactly one entry per inserted node, keyed by the node's name, and none for
\* the sentinel: its keys are the registry's names without "root"; a node the
\* caller named "root" is inserted and exported under a suffixed name.
C13_ExportExcludesSentinel ==
    /\ \A g \in Graphs : ExportsRegistry(World, g)
    /\ \A g \in Graphs, i \in Given :
          LET r == append(i.w, g, i.n, FALSE, FALSE)
          IN  r.ok =>
                /\ ExportsRegistry(r.w, g)
                /\ r.w.heap[i.n].action_name \in DOMAIN export(r.w, g)
                /\ r.w.heap[i.n].action_name # "root"

\* a merged graph holds two nodes the caller had named "root", and exports both
C13_Witness ==
    \E g \in Derived :
        /\ graphs[g].origin.op = "add"
        /\ DOMAIN export(World, g) = {"root_1", "root_1_1"}
        /\ DOMAIN graphs[g].nodes = {"root", "root_1", "root_1_1"}

(* ----------------- claims about the expression compiler --------------- *)
\* the state after c = Condition(expression) returned or raised
Called == condition.called
Built_ == condition.called /\ condition.result.ok
Exported == exported.called

\* the messages of the lexical errors and of the structural errors
LexicalMessages == {"Unterminated string literal", "Unknown character"}
StructuralMessages ==
    {"Malformed expression: insufficient operands for operator",
     "Malformed expression: insufficient operand for operator",
     "Malformed expression: the final stack contained more than one element"}

\* v is a complete lowered value: a boolean, a string, a number, or a mapping
\* of one operator name to one or two complete values
RECURSIVE IsLowered(_)
IsLowered(v) ==
    \/ DOMAIN v \in {{"bool"}, {"str"}, {"int"}, {"float"}}
    \/ /\ DOMAIN v = {"dict", "value"}
       /\ v.dict = "not"
       /\ IsLowered(v.value)
    \/ /\ DOMAIN v = {"dict", "list"}
       /\ v.dict \in {"equals", "greaterOrEquals", "lessOrEquals", "greater", "less",
                      "and", "or"}
       /\ Len(v.list) = 2
       /\ IsLowered(v.list[1])
       /\ IsLowered(v.list[2])

\* C14 as claimed: compiling any text either returns a complete nested mapping
\* or fails with a lexical error or a structural error, in no other way.
C14_FailsOnlyLexicallyOrStructurally ==
    /\ Called =>
          \/ condition.result.ok
          \/ /\ condition.result.error = "ValueError"
             /\ condition.result.message \in LexicalMessages \cup StructuralMessages
    /\ Exported => Built_ /\ IsLowered(exported.value)

\* the tokens of the expression the caller wrote (<<>> when it has none)
Tokens == LET t == tokenizer(expression.text) IN IF t.ok THEN t.value ELSE <<>>

\* a token that is an operand: no operator and no parenthesis
IsAtom(t) == t \notin DOMAIN precedence /\ t \notin {LPAREN, RPAREN}

\* a token sequence that is an atom or a comparison of two atoms
IsOperand(ts) ==
    \/ Len(ts) = 1 /\ IsAtom(ts[1])
    \/ /\ Len(ts) = 3
       /\ IsAtom(ts[1])
       /\ ts[2] \in {EQ, NE, GT, LT, GE, LE}
       /\ IsAtom(ts[3])

\* the text of x, word, y with single spaces between
Then(x, word, y) == x \o <<" ">> \o word \o <<" ">> \o y

\* the operands the expression of the state is combined with
Operands ==
    {<<"b">>, <<"2">>, Then(<<"b">>, GE, <<"2">>), Then(FALSE_, NE, <<QUOTE, "s", QUOTE>>)}

\* what C15 says of the operand texts x, y, z
AndBeforeOr(x, y, z) ==
    LET X == compile(x).value
        Y == compile(y).value
        Z == compile(z).value
    IN  /\ compile(Then(x, OR, Then(y, AND, z))) = Value(Dict2("or", X, Dict2("and", Y, Z)))
        /\ compile(Then(Then(x, AND, y), OR, z)) = Value(Dict2("or", Dict2("and", X, Y), Z))

\* C15: "and" binds tighter than "or" and the comparisons bind tighter than
\* both: for operands a, b, c that are atoms or comparisons of atoms,
\* 'a or b and c' compiles to {or: [A, {and: [B, C]}]} and 'a and b or c' to
\* {or: [{and: [A, B]}, C]}.  The compiled expression of the state is taken as
\* each of the three operands, and is itself lowered so when it has that form.
C15_AndBindsTighterThanOr ==
    /\ Exported /\ IsOperand(Tokens) =>
          \A y \in Operands, z \in Operands :
              /\ compile(expression.text) = Value(exported.value)
              /\ AndBeforeOr(expression.text, y, z)
              /\ AndBeforeOr(y, expression.text, z)
              /\ AndBeforeOr(y, z, expression.text)
    /\ Called /\ Len(Tokens) = 5 /\ IsAtom(Tokens[1]) /\ IsAtom(Tokens[3]) /\ IsAtom(Tokens[5]) =>
          /\ Tokens[2] = OR /\ Tokens[4] = AND =>
                /\ condition.result.ok
                /\ ast_to_dict(condition.result.value.ast) =
                       Dict2("or", literal_to_dict(Tokens[1]),
                             Dict2("and", literal_to_dict(Tokens[3]),
                                   literal_to_dict(Tokens[5])))
          /\ Tokens[2] = AND /\ Tokens[4] = OR =>
                /\ condition.result.ok
                /\ ast_to_dict(condition.result.value.ast) =
                       Dict2("or", Dict2("and", literal_to_dict(Tokens[1]),
                                         literal_to_dict(Tokens[3])),
                             literal_to_dict(Tokens[5]))

\* 'a or false and a' was compiled and exported as {or: [a, {and: [false, a]}]}
C15_Witness ==
    /\ Exported
    /\ Tokens = <<<<"a">>, OR, FALSE_, AND, <<"a">>>>
    /\ exported.value =
          Dict2("or", Str(variables(<<"a">>)),
                Dict2("and", Bool(FALSE), Str(variables(<<"a">>))))

\* C16: for atoms x and y and each of the six comparison operators op,
\* 'not x op y' compiles to {not: compile('x op y')}: "not" negates the whole
\* comparison, never x alone.
C16_NotNegatesComparison ==
    /\ Called /\ Len(Tokens) = 3 /\ IsOperand(Tokens) =>
          \A op \in {EQ, NE, GT, LT, GE, LE} :
              LET x == Tokens[1]
                  y == Tokens[3]
                  inner == compile(Then(x, op, y))
              IN  /\ inner.ok
                  /\ compile(NOT \o <<" ">> \o Then(x, op, y)) =
                         Value(Dict1("not", inner.value))
                  /\ compile(NOT \o <<" ">> \o Then(x, op, y)) #
                         compile(Then(<<"(">> \o NOT \o <<" ">> \o x \o <<")">>, op, y))
    /\ Exported /\ Len(Tokens) = 4 /\ Tokens[1] = NOT /\ IsOperand(Tail(Tokens)) =>
          exported.value =
              Dict1("not", compile(Then(Tokens[2], Tokens[3], Tokens[4])).value)

\* 'not a == false' was compiled and exported as {not: {equals: [a, false]}}
C16_Witness ==
    /\ Exported
    /\ Tokens = <<NOT, <<"a">>, EQ, FALSE_>>
    /\ exported.value =
          Dict1("not", Dict2("equals", Str(variables(<<"a">>)), Bool(FALSE)))

\* the operator names a lowered value has as keys, at every depth
RECURSIVE Keys(_)
Keys(v) ==
    IF "dict" \notin DOMAIN v THEN {}
    ELSE IF "value" \in DOMAIN v THEN {v.dict} \cup Keys(v.value)
    ELSE {v.dict} \cup Keys(v.list[1]) \cup Keys(v.list[2])

\* text in parentheses
Parenthesised(text) == <<"(", " ">> \o text \o <<" ", ")">>

\* what C17 says of the operand texts x and y, which compile to X and Y
LoweredAsNotEquals(x, y) ==
    LET X == compile(x).value
        Y == compile(y).value
    IN  /\ compile(Then(x, NE, y)) = Value(Dict1("not", Dict2("equals", X, Y)))
        /\ compile(Then(x, NE, y)) = Value(Dict1("not", compile(Then(x, EQ, y)).value))

\* C17: 'x != y' compiles to {not: {equals: [X, Y]}}, which is
\* {not: compile('x == y')}, for operands x and y that are atoms or
\* expressions in parentheses; no exported value has the key not_equals at any
\* depth.
C17_InequalityIsNegatedEquality ==
    /\ Exported => "not_equals" \notin Keys(exported.value)
    /\ Exported /\ Len(Tokens) = 3 /\ IsAtom(Tokens[1]) /\ Tokens[2] = NE /\ IsAtom(Tokens[3]) =>
          /\ exported.value =
                Dict1("not", Dict2("equals", literal_to_dict(Tokens[1]),
                                   literal_to_dict(Tokens[3])))
          /\ LoweredAsNotEquals(Tokens[1], Tokens[3])
    /\ Exported /\ LPAREN \notin Range(Tokens) =>
          \A y \in Operands :
              /\ LoweredAsNotEquals(Parenthesised(expression.text), Parenthesised(y))
              /\ LoweredAsNotEquals(Parenthesised(y), Parenthesised(expression.text))
              /\ Len(Tokens) = 1 => LoweredAsNotEquals(expression.text, Parenthesised(y))

\* 'a != false' was compiled and exported as {not: {equals: [a, false]}}
C17_Witness ==
    /\ Exported
    /\ Tokens = <<<<"a">>, NE, FALSE_>>
    /\ exported.value = Dict1("not", Dict2("equals", Str(variables(<<"a">>)), Bool(FALSE)))
    /\ Keys(exported.value) = {"not", "equals"}

\* the number the text of an operand denotes: with a "." a floating-point
\* value, else an integer; ok is FALSE when the text denotes none
NumberOf(t) == IF "." \in Range(t) THEN float(t) ELSE int(t)

\* the lowering the specification gives for the text t of an operand
Lowering(t) ==
    CASE t = TRUE_ -> Bool(TRUE)
      [] t = FALSE_ -> Bool(FALSE)
      [] t \notin {TRUE_, FALSE_} /\ Head(t) = QUOTE -> Str(SubSeq(t, 2, Len(t) - 1))
      [] t \notin {TRUE_, FALSE_} /\ Head(t) # QUOTE /\ NumberOf(t).ok -> NumberOf(t).value
      [] OTHER -> Str(variables(t))

Arity(t) ==
    IF t = NOT THEN 1
    ELSE IF t \in {EQ, NE, GT, LT, GE, LE, AND, OR} THEN 2
    ELSE 0

\* a stack error of the postfix form rpn from token i on, depth nodes being on
\* the stack: an operator finds fewer operands than it takes, or the stack
\* does not hold exactly one node at the end
RECURSIVE StackError(_, _, _)
StackError(rpn, i, depth) ==
    IF i > Len(rpn) THEN depth # 1
    ELSE IF Arity(rpn[i]) > depth THEN TRUE
    ELSE StackError(rpn, i + 1, depth - Arity(rpn[i]) + 1)

\* Condition(expression) raised a structural error
StructuralError ==
    /\ Called
    /\ ~condition.result.ok
    /\ condition.result.error = "ValueError"
    /\ condition.result.message \in StructuralMessages

\* C19: when the expression has a postfix form, building the tree raises a
\* structural error exactly when the postfix form has a stack error, and
\* returns a tree otherwise; so 'a ==', the empty expression, an expression of
\* spaces only and two operands with no operator raise a structural error; and
\* nothing is exported after an error.
C19_StructuralErrorsAreStackErrors ==
    /\ Exported => Built_
    /\ Called =>
          LET tokens == tokenizer(expression.text)
              rpn == infix_to_rpn(tokens.value)
          IN  /\ tokens.ok /\ rpn.ok =>
                    /\ StructuralError <=> StackError(rpn.value, 1, 0)
                    /\ condition.result.ok <=> ~StackError(rpn.value, 1, 0)
                    /\ condition.result = create_ast(rpn.value)
                          \/ condition.result = Value([ast |-> create_ast(rpn.value).value])
              /\ StructuralError => tokens.ok /\ rpn.ok
              /\ Condition(<<" ">> \o expression.text \o <<" ">>) = condition.result
              /\ Tokens = <<>> /\ tokens.ok => StructuralError
              /\ Len(Tokens) = 2 /\ IsAtom(Tokens[1]) /\ Tokens[2] = EQ => StructuralError
              /\ Len(Tokens) = 2 /\ IsAtom(Tokens[1]) /\ IsAtom(Tokens[2]) => StructuralError

\* 'a a' was compiled: Condition raised the structural error of the final
\* stack, and nothing was exported
C19_Witness ==
    /\ StructuralError
    /\ Tokens = <<<<"a">>, <<"a">>>>
    /\ condition.result.message =
          "Malformed expression: the final stack contained more than one element"
    /\ ~Exported

\* the characters that may stand outside a string literal, the two that only
\* start a comparison operator when "=" follows not among them
Plain == {" ", "(", ")", ">", "<", ".", "-", "_"} \cup Digits \cup Letters

\* the scan of the claim, from index i on: "unterminated" at a double quote
\* with no later double quote, "unknown" at a character that is none of the
\* allowed ones, "none" at the end; a closed string literal and a
\* two-character operator are passed over as a whole
RECURSIVE Scan(_, _)
Scan(s, i) ==
    IF i > Len(s) THEN "none"
    ELSE IF s[i] = QUOTE
    THEN IF \E j \in (i + 1)..Len(s) : s[j] = QUOTE
         THEN Scan(s, 1 + CHOOSE j \in (i + 1)..Len(s) :
                             s[j] = QUOTE /\ \A k \in (i + 1)..(j - 1) : s[k] # QUOTE)
         ELSE "unterminated"
    ELSE IF i < Len(s) /\ s[i] \in {"=", "!", ">", "<"} /\ s[i + 1] = "="
    THEN Scan(s, i + 2)
    ELSE IF s[i] \in Plain THEN Scan(s, i + 1)
    ELSE "unknown"

\* C20: tokenizer raises "Unterminated string literal" exactly when the scan
\* meets a double quote with no closing quote, "Unknown character" exactly
\* when the scan meets a character that is not allowed (a lone "=" or "!"
\* among them), and otherwise returns tokens that are all non-empty, a token
\* that holds a double quote beginning and ending with one.
C20_TokenizerFailsExactly ==
    LET tokens == tokenizer(expression.text)
        scan == Scan(expression.text, 1)
    IN  /\ tokens.ok <=> scan = "none"
        /\ ~tokens.ok =>
              /\ tokens.error = "ValueError"
              /\ tokens.message = "Unterminated string literal" <=> scan = "unterminated"
              /\ tokens.message = "Unknown character" <=> scan = "unknown"
        /\ tokens.ok =>
              \A k \in 1..Len(tokens.value) :
                  LET t == tokens.value[k]
                  IN  /\ t # <<>>
                      /\ QUOTE \in Range(t) =>
                            /\ Len(t) >= 2
                            /\ Head(t) = QUOTE
                            /\ t[Len(t)] = QUOTE
        /\ Called /\ ~tokens.ok => condition.result = tokens

\* a text with a closed string literal that holds an unknown character and
\* then a double quote that is never closed: Condition raised the lexical
\* error of the unterminated string
C20_Witness ==
    /\ Called
    /\ expression.text = <<QUOTE, "#", QUOTE, QUOTE>>
    /\ ~condition.result.ok
    /\ condition.result.message = "Unterminated string literal"

\* C21 as claimed: the infix-to-postfix pass silently discards a ")" that has
\* no matching "(": for every expression that compiles, the expression followed
\* by " )" compiles too, without any error, and to the same result.
C21_UnmatchedCloseIsDiscarded ==
    Exported =>
        LET more == compile(expression.text \o <<" ", ")">>)
        IN  /\ more.ok
            /\ more = Value(exported.value)

\* the number of "(" of the tokens ts from index i on that no later ")"
\* closes, depth of them being open before i; a ")" with nothing open closes
\* nothing
RECURSIVE OpenAtEnd(_, _, _)
OpenAtEnd(ts, i, depth) ==
    IF i > Len(ts) THEN depth
    ELSE IF ts[i] = LPAREN THEN OpenAtEnd(ts, i + 1, depth + 1)
    ELSE IF ts[i] = RPAREN /\ depth > 0 THEN OpenAtEnd(ts, i + 1, depth - 1)
    ELSE OpenAtEnd(ts, i + 1, depth)

\* the values a lowered value has at its leaves
RECURSIVE Leaves(_)
Leaves(v) ==
    IF "dict" \notin DOMAIN v THEN {v}
    ELSE IF "value" \in DOMAIN v THEN Leaves(v.value)
    ELSE Leaves(v.list[1]) \cup Leaves(v.list[2])

\* C29 as claimed: a "(" with no matching ")" never reaches the output: every
\* expression that holds one ('(' alone, 'a == (') fails with a structural
\* error, and no exported value has a literal or a variable reference made
\* from a parenthesis token.
C29_UnmatchedOpenIsRejected ==
    /\ Called /\ tokenizer(expression.text).ok /\ OpenAtEnd(Tokens, 1, 0) > 0 =>
          StructuralError
    /\ Exported =>
          Leaves(exported.value) \cap {literal_to_dict(LPAREN), literal_to_dict(RPAREN)} = {}

\* a token sequence that is "not" before an atom, a comparison of atoms or
\* another such sequence
RECURSIVE IsNotExpression(_)
IsNotExpression(ts) ==
    /\ Len(ts) >= 2
    /\ ts[1] = NOT
    /\ IsOperand(Tail(ts)) \/ IsNotExpression(Tail(ts))

\* C30 as claimed: the parentheses around the operand of "not" are redundant
\* when the operand is an atom, a comparison or itself a "not" expression: for
\* such an expression e that compiles, 'not e' compiles and gives what
\* 'not ( e )' gives; 'not not a' compiles to {not: {not: A}} and
\* 'a and not not b' to {and: [A, {not: {not: B}}]}.
C30_NotOperandNeedsNoParentheses ==
    /\ Exported /\ (IsOperand(Tokens) \/ IsNotExpression(Tokens)) =>
          LET bare == compile(NOT \o <<" ">> \o expression.text)
          IN  /\ bare.ok
              /\ bare = compile(NOT \o <<" ">> \o Parenthesised(expression.text))
              /\ bare = Value(Dict1("not", exported.value))
    /\ Called /\ Len(Tokens) = 3 /\ Tokens[1] = NOT /\ Tokens[2] = NOT /\ IsAtom(Tokens[3]) =>
          /\ condition.result.ok
          /\ ast_to_dict(condition.result.value.ast) =
                 Dict1("not", Dict1("not", literal_to_dict(Tokens[3])))
    /\ Called /\ Len(Tokens) = 5 /\ IsAtom(Tokens[1]) /\ Tokens[2] = AND
              /\ Tokens[3] = NOT /\ Tokens[4] = NOT /\ IsAtom(Tokens[5]) =>
          /\ condition.result.ok
          /\ ast_to_dict(condition.result.value.ast) =
                 Dict2("and", literal_to_dict(Tokens[1]),
                       Dict1("not", Dict1("not", literal_to_dict(Tokens[5]))))

(* ------------------- claims about the shape of graphs ----------------- *)
\* the outcome of every call the caller can make in the current state, the
\* calls that raise among them
Outcomes ==
    {add_top(i.w, g, i.n) : g \in Graphs, i \in Given}
    \cup {add_after(i.w, g, i.n, p, f, FALSE) :
             g \in Graphs, i \in Given, p \in Objs, f \in BOOLEAN}
    \cup {append(i.w, g, i.n, FALSE, e) : g \in Graphs, i \in Given, e \in BOOLEAN}
    \cup UNION {deepcopy(World, g) : g \in Graphs}
    \cup UNION {add_actions(World, a, b) : a \in Graphs, b \in Graphs}
    \cup UNION {add_action(i.w, a, i.n) : a \in Graphs, i \in Given}

\* the registered nodes of graph g that have n in their child set
Parents(w, g, n) == {p \in Registered(w, g) : n \in w.heap[p].next_nodes}

\* following the parent links from n reaches the sentinel of g without meeting
\* a node of seen or any node twice
RECURSIVE Climbs(_, _, _, _)
Climbs(w, g, n, seen) ==
    IF n = w.graphs[g].root_node THEN TRUE
    ELSE IF n \in seen \/ Parents(w, g, n) = {} THEN FALSE
    ELSE Climbs(w, g, CHOOSE p \in Parents(w, g, n) : TRUE, seen \cup {n})

\* graph g of world w is a tree rooted at its sentinel
IsTree(w, g) ==
    LET root == w.graphs[g].root_node
        reg == Registered(w, g)
    IN  /\ root \in reg
        /\ IsSkelton(w, root)
        /\ \A n \in reg :
              /\ w.heap[n].next_nodes \subseteq reg
              /\ root \notin w.heap[n].next_nodes
              /\ n # root =>
                    /\ ~IsSkelton(w, n)
                    /\ w.heap[n].have_parent_node
                    /\ Cardinality(Parents(w, g, n)) = 1
              /\ Climbs(w, g, n, {})

\* C22: every graph is a tree rooted at its sentinel, in the current state and
\* after any add_top, add_after, append, clone or merge, the calls that raise
\* included: every registered node that is no sentinel has have_parent_node
\* set and is in the child set of exactly one registered node, child sets hold
\* registered nodes only, the sentinel is nobody's child, and the parent links
\* lead from every registered node to the sentinel without repeating a node.
C22_GraphsAreTrees ==
    /\ \A g \in Graphs : IsTree(World, g)
    /\ \A r \in Outcomes : \A g \in 1..Len(r.w.graphs) : IsTree(r.w, g)

\* a call raised, and a graph returned by + holds an action node below
\* another action node
C22_Witness ==
    /\ ~last_ok
    /\ \E m \in Derived :
          /\ graphs[m].origin.op = "add"
          /\ \E p \in Registered(World, m), n \in Registered(World, m) :
                /\ ~IsSkelton(World, p)
                /\ n \in heap[p].next_nodes
                /\ Parents(World, m, n) = {p}

\* the registered parent of the registered node n of graph g, n no sentinel
Parent(w, g, n) == CHOOSE p \in Parents(w, g, n) : TRUE

\* the dependency maps of graph g of world w resolve in its registry
ResolvesRunAfter(w, g) ==
    \A n \in Registered(w, g) \ {w.graphs[g].root_node} :
        LET p == Parent(w, g, n)
            runafter == w.heap[n].runafter
        IN  /\ "root" \notin DOMAIN runafter
            /\ IF p = w.graphs[g].root_node
               THEN runafter = EmptyDict
               ELSE /\ DOMAIN runafter = {w.heap[p].action_name}
                    /\ w.heap[p].action_name \in DOMAIN w.graphs[g].nodes
                    /\ w.graphs[g].nodes[w.heap[p].action_name] = p
            /\ \A k \in DOMAIN runafter :
                  /\ k \in DOMAIN w.graphs[g].nodes
                  /\ n \in w.heap[w.graphs[g].nodes[k]].next_nodes

\* C23: in every graph, in the current state and after every call, the
\* dependency map of a node that is no sentinel is empty when its parent is
\* the sentinel and otherwise has exactly one key, the current name of its
\* parent, which is a key of the registry of the same graph; so no map names
\* the sentinel, a node of another graph, or a name a node had before it was
\* renamed.
C23_RunAfterNamesTheParent ==
    /\ \A g \in Graphs : ResolvesRunAfter(World, g)
    /\ \A r \in Outcomes : \A g \in 1..Len(r.w.graphs) : ResolvesRunAfter(r.w, g)

\* a + a returned for a chain a, a_1: the copy of a_1 was renamed a_1_1 and
\* runs after the copy of a, which was renamed a_2
C23_Witness ==
    \E m \in Derived :
        /\ graphs[m].origin.op = "add"
        /\ "a_1_1" \in DOMAIN graphs[m].nodes
        /\ LET n == graphs[m].nodes["a_1_1"]
           IN  /\ heap[heap[n].copy_of].action_name = "a_1"
               /\ DOMAIN heap[n].runafter = {"a_2"}
               /\ heap[Parent(World, m, n)].action_name = "a_2"
               /\ heap[heap[Parent(World, m, n)].copy_of].action_name = "a"

\* above node n of graph g there are InitVariableAction nodes only, up to the
\* sentinel
RECURSIVE RunsFirst(_, _, _)
RunsFirst(w, g, n) ==
    LET p == Parent(w, g, n)
    IN  \/ p = w.graphs[g].root_node
        \/ IsInitVariable(w, p) /\ RunsFirst(w, g, p)

\* every InitVariableAction node is registered, and in root-level graphs only
VariablesAtRootLevel ==
    \A n \in ActionObjs :
        IsInitVariable(World, n) =>
            /\ \E g \in Graphs : n \in Registered(World, g)
            /\ \A g \in Graphs : n \in Registered(World, g) => graphs[g].is_root_actions

\* C24 as claimed: variable-initialization actions are allowed at the root
\* level only and run in sequence before the other actions: every
\* InitVariableAction node is registered in a root-level graph, and no node of
\* another kind lies on its chain of run-after ancestors.
C24_VariablesRunFirst ==
    /\ VariablesAtRootLevel
    /\ \A g \in Graphs : \A n \in Registered(World, g) :
          IsInitVariable(World, n) => RunsFirst(World, g, n)

\* the required-state sets of the dependency map of node n
Gating(w, n) == Range(w.heap[n].runafter)

\* what an exported entry holds besides its metadata id
WithoutMetadata(entry) ==
    [type |-> entry.type, runAfter |-> entry.runAfter, inputs |-> entry.inputs]

\* C26 as claimed: copying keeps the gating: a node added with force_exec
\* ({Succeeded, Failed, Skipped, TimedOut}) or with exec_if_failed ({Failed})
\* has the same required-state set in g.clone() and in a + b as in the
\* original, and the export of a clone differs from the export of its
\* original in the metadata ids only.
C26_CopiesKeepGating ==
    /\ \A g \in Graphs : \A r \in deepcopy(World, g) :
          /\ r.ok
          /\ LET c == Len(r.w.graphs)
                 original == export(World, g)
                 copy == export(r.w, c)
             IN  /\ DOMAIN copy = DOMAIN original
                 /\ \A k \in DOMAIN original :
                       WithoutMetadata(copy[k]) = WithoutMetadata(original[k])
                 /\ \A k \in DOMAIN graphs[g].nodes :
                       Gating(r.w, r.w.graphs[c].nodes[k]) = Gating(World, graphs[g].nodes[k])
    /\ \A a \in Graphs, b \in Graphs : \A r \in add_actions(World, a, b) :
          /\ r.ok
          /\ \A c \in Registered(r.w, Len(r.w.graphs)) :
                LET o == r.w.heap[c].copy_of
                IN  Gating(World, o) # {} => Gating(r.w, c) = Gating(World, o)

\* C27 as claimed: for any graph a and any graph b that holds an action, the
\* last_update_node of a + b is the copy of b's last_update_node, whatever the
\* shape of b and whatever the order its child sets are iterated in; when b
\* holds no action it is the copy of a's last_update_node.
C27_MergeEndsInLastOfRight ==
    \A a \in Graphs, b \in Graphs : \A r \in add_actions(World, a, b) :
        /\ r.ok
        /\ LET m == Len(r.w.graphs)
               last == r.w.graphs[m].last_update_node
           IN  /\ last \in Registered(r.w, m)
               /\ IF Registered(World, b) # {graphs[b].root_node}
                  THEN /\ last \in RightCopies(a, r)
                       /\ r.w.heap[last].copy_of = graphs[b].last_update_node
                  ELSE /\ last \in LeftCopies(a)
                       /\ r.w.heap[last].copy_of = graphs[a].last_update_node

\* node n of world w is unused: no parent, no dependency, no child, and
\* registered in no graph
Unused(w, n) ==
    /\ ~w.heap[n].have_parent_node
    /\ w.heap[n].runafter = EmptyDict
    /\ w.heap[n].next_nodes = {}
    /\ \A g \in 1..Len(w.graphs) : n \notin Registered(w, g)

\* what C28 says of the outcome r of n + x for the left operand n of world w
KeepsLeftOperand(w, n, r) ==
    r.ok =>
        /\ Unused(r.w, n)
        /\ r.w.heap[n] = w.heap[n]
        /\ \E c \in Registered(r.w, Len(r.w.graphs)) :
              /\ c # n
              /\ r.w.heap[c].copy_of = n

\* C28 as claimed: + with a single node on the left never consumes that node:
\* after n + g and after n + m the unused node n still has have_parent_node
\* false, an empty dependency map and an empty child set and is registered in
\* no graph, and the result holds a clone of it.
C28_NodePlusKeepsLeftOperand ==
    \A i \in Given :
        Unused(i.w, i.n) =>
            /\ \A b \in Graphs : \A r \in node_add_actions(i.w, i.n, b) :
                  KeepsLeftOperand(i.w, i.n, r)
            /\ \A m \in ActionObjs : KeepsLeftOperand(i.w, i.n, node_add_node(i.w, i.n, m))

(* ----------------------- claims about RawActions ---------------------- *)
\* the names of the entries of definition d
EntryNamesOf(d) == {d[i].name : i \in DOMAIN d}

\* definition d is well formed: it is not empty, every entry is a dict with the
\* keys type, inputs and metadata, and every name a runAfter lists is the name
\* of an entry
WellFormed(d) ==
    /\ d # <<>>
    /\ \A i \in DOMAIN d :
          /\ d[i].node.dict
          /\ {"type", "inputs", "metadata"} \subseteq d[i].node.keys
          /\ "runAfter" \in d[i].node.keys => d[i].node.runAfter \subseteq EntryNamesOf(d)

\* the entries of d in the opposite order
Reversed(d) == [i \in 1..Len(d) |-> d[Len(d) + 1 - i]]

\* C25 as claimed: validation() returns True exactly when the definition is
\* well formed, whatever the order of its entries, and export() returns the
\* definition when validation() is True and the empty dict otherwise.
C25_RawValidationIsOrderFree ==
    /\ raw.called =>
          /\ raw.validation = WellFormed(definition)
          /\ validation(Reversed(definition)) = raw.validation
    /\ raw.called /\ raw.exported =>
          raw.export = IF WellFormed(definition) THEN definition ELSE <<>>

====
